---------------------------- MODULE Spec2Model ----------------------------
(***************************************************************************)
(* geoutil: the batch entry points (BatchGeocode, BatchGetElevation,       *)
(* BatchFullLocation, BatchDistanceConcurrent,                             *)
(* FilterPointsInPolygonConcurrent) and the TTL cache, as state machines.  *)
(*                                                                         *)
(* One behaviour of Spec is one call of one entry point: Init chooses the  *)
(* entry point (fn), its input and what the providers answer (env); the    *)
(* actions are the statements of the goroutines the call starts.  Worker   *)
(* goroutines of a pool run the same closure and carry no identity in the  *)
(* source: the model keeps the number of them blocked on `range tasks`     *)
(* (idle) and one record in G for every goroutine that holds a task.       *)
(* Indices are 0-based as in the source.                                   *)
(***************************************************************************)
EXTENDS Integers, Sequences, FiniteSets, TLC

VARIABLES
    fn,             \* the entry point this behaviour runs
    input,          \* its input slice: a function on 0..N-1
    env,            \* what the outside answers: provider outcome per task,
                    \* the caller's distanceFunc, or the polygon
    mainpc,         \* where the calling goroutine is
    mi,             \* the loop counter of the calling goroutine
    tasks,          \* the tasks channel (FIFO buffer)
    tasksClosed,
    results,        \* the results channel (FIFO buffer)
    resultsClosed,
    wg,             \* sync.WaitGroup counter
    sem,            \* number of tokens in the sem channel
    idle,           \* pool workers blocked on `range tasks`
    G,              \* goroutines holding a task: records with their pc and locals
    prodpc,         \* task-producer goroutine: "none", "run", "done"
    pk,             \* number of tasks the producer has sent
    closerpc,       \* goroutine `wg.Wait(); close(results)`: "none", "wait", "done"
    out,            \* the output slice / matrix the collector fills
    ret,            \* what the call returned; Pending until it returns
    spawned,        \* history: worker goroutines started so far
    writes,         \* history: number of writes to each output slot
    ooo,            \* history: the collector received a result after one of a
                    \* higher index (results arrived out of input order)
    handed,         \* history of a linear batch: how many times each task
                    \* index was handed to a worker goroutine
    calls,          \* history: how many times the work function was invoked
                    \* for each task index (the distance function: each pair)
    now,            \* cache: the clock (time.Now())
    ttl,            \* cache: Cache.ttl
    items,          \* cache: Cache.items, a map from key to cacheItem
    lastGet,        \* cache: what the last Cache.Get returned, and what it saw
    lastSet,        \* cache history: per key, the last Set and the sweeps since
    L,              \* load model: goroutine and channel counts
    W               \* work functions: the calls of Geocode, ReverseGeocode or
                    \* GetElevation in flight, one record per calling goroutine

batchVars == <<fn, input, env, mainpc, mi, tasks, tasksClosed, results,
               resultsClosed, wg, sem, idle, G, prodpc, pk, closerpc, out, ret,
               spawned, writes, ooo, handed, calls>>
cacheVars == <<now, ttl, items, lastGet, lastSet>>
vars == <<batchVars, cacheVars, L, W>>
\* what no statement of a batch call changes
fixedVars == <<fn, input, env, now, ttl, items, lastGet, lastSet, L, W>>

-----------------------------------------------------------------------------
(* Bounds of the model *)

\* longest input slice of a batch call
MaxN == 3

-----------------------------------------------------------------------------
(* Values *)

\* the input slices of length n a linear batch is run on.  The entry points
\* never look inside an address or a point, so slices of pairwise distinct
\* values stand for all: one in ascending and one in descending order
Inputs(n) == {[i \in 0..(n - 1) |-> i + 1], [i \in 0..(n - 1) |-> n - i]}

\* An error value is its text (msg, what err.Error() returns) and its identity
\* (id: the call that made it; errors.New and fmt.Errorf make a new value at
\* every call).  The text names neither the index nor the input of a task.
\* NilErr is the nil error.
NilErr == [msg |-> "nil", id |-> -1]

\* no return yet
Pending == [done |-> FALSE]

\* a nil slice
NilSlice == <<"nil">>

N == Cardinality(DOMAIN input)
Idx == 0..(N - 1)

\* Go's zero value of Point, int and float64 in a fresh slice
Zero == 0

\* all slices of length n over S, 0-based
Slices(S, n) == [0..(n - 1) -> S]

\* make([]T, n), z the zero value of T
MakeSlice(n, z) == [i \in 0..(n - 1) |-> z]

\* the variables of the cache and of the load model, not used by a batch call
ParkedCache ==
    /\ now = 0
    /\ ttl = 0
    /\ items = <<>>
    /\ lastGet = <<>>
    /\ lastSet = <<>>

ParkedLoad == L = <<>> /\ W = <<>>

-----------------------------------------------------------------------------
(* Channels, WaitGroup: the Go primitives the entry points share *)

\* a buffered send `ch <- x` proceeds when the buffer has room
CanSend(ch, capacity) == Len(ch) < capacity

\* `for x := range ch` takes the head of a buffer that is not empty
CanRecv(ch) == ch /= <<>>

\* a collector that takes an empty channel for a closed one
DrainedWithoutClose(ch, closed) == ch = <<>>

\* `for x := range ch` ends when ch is closed and drained
Drained(ch, closed) == ch = <<>> /\ closed

\* a semaphore that admits one goroutine too many
CanSendSemOffByOne(held, capacity) == held <= capacity

\* `sem <- struct{}{}` proceeds while sem holds fewer tokens than its capacity
CanSendSem(held, capacity) == held < capacity

\* replace goroutine g by g2 in G
Upd(g, g2) == (G \ {g}) \cup {g2}

\* a goroutine's result local before the work function has returned
NoRes(z) == [value |-> z, err |-> NilErr]

\* go func() { wg.Wait(); close(results) }(), started by the calling goroutine
StartCloser == closerpc' = "wait"

\* a closer that closes results without waiting for the workers
CloseWithoutWait ==
    /\ closerpc = "wait"
    /\ resultsClosed' = TRUE
    /\ closerpc' = "done"

\* wg.Wait() returns when the counter is zero; then close(results)
WaitAndClose ==
    /\ closerpc = "wait"
    /\ wg = 0
    /\ resultsClosed' = TRUE
    /\ closerpc' = "done"

\* a collector that returns an error of its own making
ReturnErrRewritten(e) ==
    [done |-> TRUE, out |-> NilSlice, err |-> [msg |-> "batch failed", id |-> -2]]

\* a collector that returns the slice filled so far along with the error
ReturnErrWithPartial(e) == [done |-> TRUE, out |-> out, err |-> e]

\* the collector's `return nil, res.err`
ReturnErr(e) == [done |-> TRUE, out |-> NilSlice, err |-> e]

\* the collector's `return points, nil` after the range loop has ended
ReturnOk(o) == [done |-> TRUE, out |-> o, err |-> NilErr]

\* a collector that fills the slice in the order the results arrive
StoreInArrivalOrder(o, res) ==
    [o EXCEPT ![Cardinality({i \in DOMAIN writes : writes[i] > 0})] = res.value]

\* points[res.index] = res.point
Store(o, res) == [o EXCEPT ![res.index] = res.value]

\* a collector that keeps the error, drains the channel and reports the last
\* error it saw
CollectStepDrainsFirst ==
    /\ mainpc = "collect"
    /\ \/ /\ CanRecv(results)
          /\ LET res == Head(results) IN
             /\ results' = Tail(results)
             /\ ooo' = (ooo \/ \E i \in DOMAIN writes : i > res.index /\ writes[i] > 0)
             /\ IF res.err /= NilErr
                  THEN /\ ret' = [done |-> FALSE, err |-> res.err]
                       /\ UNCHANGED <<out, writes, mainpc>>
                  ELSE /\ out' = Store(out, res)
                       /\ writes' = [writes EXCEPT ![res.index] = @ + 1]
                       /\ UNCHANGED <<ret, mainpc>>
       \/ /\ Drained(results, resultsClosed)
          /\ ret' = IF "err" \in DOMAIN ret THEN ReturnErr(ret.err) ELSE ReturnOk(out)
          /\ mainpc' = "returned"
          /\ UNCHANGED <<results, out, writes, ooo>>

\* one iteration of the collector of BatchGeocode, BatchGetElevation and
\* BatchFullLocation:
\*   for res := range results {
\*       if res.err != nil { return nil, res.err }
\*       points[res.index] = res.point }
\*   return points, nil
CollectStep ==
    /\ mainpc = "collect"
    /\ \/ /\ CanRecv(results)
          /\ LET res == Head(results) IN
             /\ results' = Tail(results)
             /\ ooo' = (ooo \/ \E i \in DOMAIN writes : i > res.index /\ writes[i] > 0)
             /\ IF res.err /= NilErr
                  THEN /\ ret' = ReturnErr(res.err)
                       /\ mainpc' = "returned"
                       /\ UNCHANGED <<out, writes>>
                  ELSE /\ out' = Store(out, res)
                       /\ writes' = [writes EXCEPT ![res.index] = @ + 1]
                       /\ UNCHANGED <<ret, mainpc>>
       \/ /\ Drained(results, resultsClosed)
          /\ ret' = ReturnOk(out)
          /\ mainpc' = "returned"
          /\ UNCHANGED <<results, out, writes, ooo>>

\* the state in which an entry point is called: nothing started, nothing made
FreshCall ==
    /\ mainpc = "spawn"
    /\ mi = 0
    /\ tasks = <<>> /\ tasksClosed = FALSE
    /\ results = <<>> /\ resultsClosed = FALSE
    /\ wg = 0 /\ sem = 0 /\ idle = 0 /\ G = {}
    /\ prodpc = "none" /\ pk = 0 /\ closerpc = "none"
    /\ ret = Pending
    /\ spawned = 0
    /\ ooo = FALSE
    /\ ParkedCache /\ ParkedLoad

\* longest input of BatchFullLocation: its 20 workers make its runs the
\* largest, and it is explored up to three points
MaxFullN == IF MaxN > 3 THEN 3 ELSE MaxN

\* the producer of BatchGetElevation and BatchFullLocation, one iteration:
\*   for i, p := range points { tasks <- task{i, p} }
SendTask ==
    /\ prodpc = "run" /\ pk < N
    /\ CanSend(tasks, N)
    /\ tasks' = Append(tasks, [index |-> pk, point |-> input[pk]])
    /\ pk' = pk + 1

\* the producer after its loop: close(tasks)
CloseTasks(total) ==
    /\ prodpc = "run" /\ pk = total
    /\ tasksClosed' = TRUE
    /\ prodpc' = "done"

\* a worker that reads the head of tasks and leaves it in the channel
TakeTaskLeavesIt(firstpc, z) ==
    /\ idle > 0
    /\ CanRecv(tasks)
    /\ tasks' = tasks
    /\ idle' = idle - 1
    /\ G' = G \cup {[idx |-> Head(tasks).index, in |-> Head(tasks).point,
                      pc |-> firstpc, res |-> NoRes(z)]}
    /\ handed' = [handed EXCEPT ![Head(tasks).index] = @ + 1]

\* workers that stop taking tasks once the call has returned
TakeTaskUntilReturn(firstpc, z) ==
    /\ mainpc /= "returned"
    /\ idle > 0
    /\ CanRecv(tasks)
    /\ tasks' = Tail(tasks)
    /\ idle' = idle - 1
    /\ G' = G \cup {[idx |-> Head(tasks).index, in |-> Head(tasks).point,
                      pc |-> firstpc, res |-> NoRes(z)]}
    /\ handed' = [handed EXCEPT ![Head(tasks).index] = @ + 1]

\* a pool worker's `for t := range tasks` receives a task
TakeTask(firstpc, z) ==
    /\ idle > 0
    /\ CanRecv(tasks)
    /\ tasks' = Tail(tasks)
    /\ idle' = idle - 1
    /\ G' = G \cup {[idx |-> Head(tasks).index, in |-> Head(tasks).point,
                      pc |-> firstpc, res |-> NoRes(z)]}
    /\ handed' = [handed EXCEPT ![Head(tasks).index] = @ + 1]

\* a pool worker's `for t := range tasks` ends: deferred wg.Done()
WorkerExit ==
    /\ idle > 0
    /\ Drained(tasks, tasksClosed)
    /\ idle' = idle - 1
    /\ wg' = wg - 1

\* a results channel without buffer: a send needs the collector to receive
SendResultUnbuffered(g, capacity) ==
    /\ g.pc = "send"
    /\ mainpc = "collect" /\ results = <<>>
    /\ results' = Append(results, [index |-> g.idx, value |-> g.res.value,
                                   err |-> g.res.err])
    /\ G' = G \ {g}
    /\ idle' = idle + 1

\* a pool worker's results <- result{t.index, v, err}, then back to `range tasks`
SendResult(g, capacity) ==
    /\ g.pc = "send"
    /\ CanSend(results, capacity)
    /\ results' = Append(results, [index |-> g.idx, value |-> g.res.value,
                                   err |-> g.res.err])
    /\ G' = G \ {g}
    /\ idle' = idle + 1

-----------------------------------------------------------------------------
(* NominatimGeocoder.BatchGeocode *)

\* capacity of sem in BatchGeocode
GeocodeSem == 10

\* the Point Nominatim answers for an address
PointOf(a) == 10 * a

\* n.Geocode(address) as the batch sees it: the point and a nil error, or
\* Point{} and the error of the step that failed
Geocode(i, address) ==
    IF env[i] = "ok"
      THEN [value |-> PointOf(address), err |-> NilErr]
      ELSE [value |-> Zero, err |-> [msg |-> "geocode", id |-> i]]

InitBatchGeocode ==
    /\ fn = "BatchGeocode"
    /\ \E n \in 0..MaxN :
         /\ input \in Inputs(n)
         /\ env \in Slices({"ok", "err"}, n)
         /\ writes = [i \in 0..(n - 1) |-> 0]
         /\ handed = [i \in 0..(n - 1) |-> 0]
         /\ calls = [i \in 0..(n - 1) |-> 0]
    /\ out = <<>>
    /\ FreshCall

\* for i, addr := range addresses { wg.Add(1); go func(idx, address) {...}(i, addr) }
BG_Spawn ==
    /\ fn = "BatchGeocode" /\ mainpc = "spawn" /\ mi < N
    /\ wg' = wg + 1
    /\ G' = G \cup {[idx |-> mi, in |-> input[mi], pc |-> "acquire",
                      res |-> NoRes(Zero)]}
    /\ mi' = mi + 1
    /\ spawned' = spawned + 1
    /\ handed' = [handed EXCEPT ![mi] = @ + 1]
    /\ UNCHANGED <<fixedVars, calls, mainpc, tasks, tasksClosed, results,
                   resultsClosed, sem, idle, prodpc, pk, closerpc, out, ret,
                   writes, ooo>>

\* after the loop: go func() { wg.Wait(); close(results) }(); points := make([]Point, len(addresses))
BG_StartCloser ==
    /\ fn = "BatchGeocode" /\ mainpc = "spawn" /\ mi = N
    /\ StartCloser
    /\ out' = MakeSlice(N, Zero)
    /\ mainpc' = "collect"
    /\ UNCHANGED <<fixedVars, handed, calls, mi, tasks, tasksClosed, results, resultsClosed,
                   wg, sem, idle, G, prodpc, pk, ret, spawned, writes, ooo>>

\* sem <- struct{}{}, then the goroutine is inside n.Geocode(address)
BG_Acquire(g) ==
    /\ fn = "BatchGeocode" /\ g.pc = "acquire"
    /\ CanSendSem(sem, GeocodeSem)
    /\ sem' = sem + 1
    /\ G' = Upd(g, [g EXCEPT !.pc = "call"])
    /\ UNCHANGED <<fixedVars, handed, calls, mainpc, mi, tasks, tasksClosed, results,
                   resultsClosed, wg, idle, prodpc, pk, closerpc, out, ret,
                   spawned, writes, ooo>>

\* point, err := n.Geocode(address) returns
BG_GeocodeReturn(g) ==
    /\ fn = "BatchGeocode" /\ g.pc = "call"
    /\ G' = Upd(g, [g EXCEPT !.pc = "send", !.res = Geocode(g.idx, g.in)])
    /\ calls' = [calls EXCEPT ![g.idx] = @ + 1]
    /\ UNCHANGED <<fixedVars, handed, mainpc, mi, tasks, tasksClosed, results,
                   resultsClosed, wg, sem, idle, prodpc, pk, closerpc, out,
                   ret, spawned, writes, ooo>>

\* results <- result{idx, point, err}
BG_Send(g) ==
    /\ fn = "BatchGeocode" /\ g.pc = "send"
    /\ CanSend(results, N)
    /\ results' = Append(results, [index |-> g.idx, value |-> g.res.value,
                                   err |-> g.res.err])
    /\ G' = Upd(g, [g EXCEPT !.pc = "release"])
    /\ UNCHANGED <<fixedVars, handed, calls, mainpc, mi, tasks, tasksClosed, resultsClosed,
                   wg, sem, idle, prodpc, pk, closerpc, out, ret, spawned,
                   writes, ooo>>

\* deferred: func() { <-sem }()
BG_Release(g) ==
    /\ fn = "BatchGeocode" /\ g.pc = "release"
    /\ sem > 0
    /\ sem' = sem - 1
    /\ G' = Upd(g, [g EXCEPT !.pc = "done"])
    /\ UNCHANGED <<fixedVars, handed, calls, mainpc, mi, tasks, tasksClosed, results,
                   resultsClosed, wg, idle, prodpc, pk, closerpc, out, ret,
                   spawned, writes, ooo>>

\* deferred: wg.Done(); the goroutine ends
BG_Done(g) ==
    /\ fn = "BatchGeocode" /\ g.pc = "done"
    /\ wg' = wg - 1
    /\ G' = G \ {g}
    /\ UNCHANGED <<fixedVars, handed, calls, mainpc, mi, tasks, tasksClosed, results,
                   resultsClosed, sem, idle, prodpc, pk, closerpc, out, ret,
                   spawned, writes, ooo>>

\* go func() { wg.Wait(); close(results) }()
BG_Close ==
    /\ fn = "BatchGeocode"
    /\ WaitAndClose
    /\ UNCHANGED <<fixedVars, handed, calls, mainpc, mi, tasks, tasksClosed, results, wg,
                   sem, idle, G, prodpc, pk, out, ret, spawned, writes, ooo>>

\* for res := range results {...}; return points, nil
BG_Collect ==
    /\ fn = "BatchGeocode"
    /\ CollectStep
    /\ UNCHANGED <<fixedVars, handed, calls, mi, tasks, tasksClosed, resultsClosed, wg, sem,
                   idle, G, prodpc, pk, closerpc, spawned>>

BatchGeocode ==
    \/ BG_Spawn
    \/ BG_StartCloser
    \/ \E g \in G : BG_Acquire(g)
    \/ \E g \in G : BG_GeocodeReturn(g)
    \/ \E g \in G : BG_Send(g)
    \/ \E g \in G : BG_Release(g)
    \/ \E g \in G : BG_Done(g)
    \/ BG_Close
    \/ BG_Collect

-----------------------------------------------------------------------------
(* OpenElevationProvider.BatchGetElevation *)

\* numWorkers := 8; if numWorkers > len(points) { numWorkers = len(points) }
ElevationWorkers(n) == IF 8 > n THEN n ELSE 8

\* the elevation Open-Elevation answers for a point
ElevationOf(p) == 100 + p

\* o.GetElevation(t.point) as the batch sees it
GetElevation(i, p) ==
    IF env[i] = "ok"
      THEN [value |-> ElevationOf(p), err |-> NilErr]
      ELSE [value |-> Zero, err |-> [msg |-> "elevation", id |-> i]]

InitBatchGetElevation ==
    /\ fn = "BatchGetElevation"
    /\ \E n \in 0..MaxN :
         /\ input \in Inputs(n)
         /\ env \in Slices({"ok", "err"}, n)
         /\ writes = [i \in 0..(n - 1) |-> 0]
         /\ handed = [i \in 0..(n - 1) |-> 0]
         /\ calls = [i \in 0..(n - 1) |-> 0]
    /\ out = <<>>
    /\ FreshCall

\* for i := 0; i < numWorkers; i++ { wg.Add(1); go func() {...}() }
BE_Spawn ==
    /\ fn = "BatchGetElevation" /\ mainpc = "spawn" /\ mi < ElevationWorkers(N)
    /\ wg' = wg + 1
    /\ idle' = idle + 1
    /\ mi' = mi + 1
    /\ spawned' = spawned + 1
    /\ UNCHANGED <<fixedVars, handed, calls, mainpc, tasks, tasksClosed, results,
                   resultsClosed, sem, G, prodpc, pk, closerpc, out, ret,
                   writes, ooo>>

\* go func() { for i, p := range points { tasks <- task{i, p} }; close(tasks) }()
BE_StartProducer ==
    /\ fn = "BatchGetElevation" /\ mainpc = "spawn" /\ mi = ElevationWorkers(N)
    /\ prodpc' = "run"
    /\ mainpc' = "closer"
    /\ UNCHANGED <<fixedVars, handed, calls, mi, tasks, tasksClosed, results, resultsClosed,
                   wg, sem, idle, G, pk, closerpc, out, ret, spawned, writes,
                   ooo>>

\* go func() { wg.Wait(); close(results) }(); elevations := make([]int, len(points))
BE_StartCloser ==
    /\ fn = "BatchGetElevation" /\ mainpc = "closer"
    /\ StartCloser
    /\ out' = MakeSlice(N, Zero)
    /\ mainpc' = "collect"
    /\ UNCHANGED <<fixedVars, handed, calls, mi, tasks, tasksClosed, results, resultsClosed,
                   wg, sem, idle, G, prodpc, pk, ret, spawned, writes, ooo>>

\* tasks <- task{i, p}
BE_SendTask ==
    /\ fn = "BatchGetElevation"
    /\ SendTask
    /\ UNCHANGED <<fixedVars, handed, calls, mainpc, mi, tasksClosed, results,
                   resultsClosed, wg, sem, idle, G, prodpc, closerpc, out,
                   ret, spawned, writes, ooo>>

\* close(tasks)
BE_CloseTasks ==
    /\ fn = "BatchGetElevation"
    /\ CloseTasks(N)
    /\ UNCHANGED <<fixedVars, handed, calls, mainpc, mi, tasks, results, resultsClosed, wg,
                   sem, idle, G, pk, closerpc, out, ret, spawned, writes, ooo>>

\* for t := range tasks: a worker takes a task and enters o.GetElevation(t.point)
BE_TakeTask ==
    /\ fn = "BatchGetElevation"
    /\ TakeTask("call", Zero)
    /\ UNCHANGED <<fixedVars, calls, mainpc, mi, tasksClosed, results,
                   resultsClosed, wg, sem, prodpc, pk, closerpc, out, ret,
                   spawned, writes, ooo>>

\* elev, err := o.GetElevation(t.point) returns
BE_GetElevationReturn(g) ==
    /\ fn = "BatchGetElevation" /\ g.pc = "call"
    /\ G' = Upd(g, [g EXCEPT !.pc = "send", !.res = GetElevation(g.idx, g.in)])
    /\ calls' = [calls EXCEPT ![g.idx] = @ + 1]
    /\ UNCHANGED <<fixedVars, handed, mainpc, mi, tasks, tasksClosed, results,
                   resultsClosed, wg, sem, idle, prodpc, pk, closerpc, out,
                   ret, spawned, writes, ooo>>

\* results <- result{t.index, elev, err}
BE_SendResult(g) ==
    /\ fn = "BatchGetElevation"
    /\ SendResult(g, N)
    /\ UNCHANGED <<fixedVars, handed, calls, mainpc, mi, tasks, tasksClosed, resultsClosed,
                   wg, sem, prodpc, pk, closerpc, out, ret, spawned, writes,
                   ooo>>

\* the range loop of a worker ends; deferred wg.Done()
BE_WorkerExit ==
    /\ fn = "BatchGetElevation"
    /\ WorkerExit
    /\ UNCHANGED <<fixedVars, handed, calls, mainpc, mi, tasks, tasksClosed, results,
                   resultsClosed, sem, G, prodpc, pk, closerpc, out, ret,
                   spawned, writes, ooo>>

\* go func() { wg.Wait(); close(results) }()
BE_Close ==
    /\ fn = "BatchGetElevation"
    /\ WaitAndClose
    /\ UNCHANGED <<fixedVars, handed, calls, mainpc, mi, tasks, tasksClosed, results, wg,
                   sem, idle, G, prodpc, pk, out, ret, spawned, writes, ooo>>

\* for res := range results {...}; return elevations, nil
BE_Collect ==
    /\ fn = "BatchGetElevation"
    /\ CollectStep
    /\ UNCHANGED <<fixedVars, handed, calls, mi, tasks, tasksClosed, resultsClosed, wg, sem,
                   idle, G, prodpc, pk, closerpc, spawned>>

BatchGetElevation ==
    \/ BE_Spawn
    \/ BE_StartProducer
    \/ BE_StartCloser
    \/ BE_SendTask
    \/ BE_CloseTasks
    \/ BE_TakeTask
    \/ \E g \in G : BE_GetElevationReturn(g)
    \/ \E g \in G : BE_SendResult(g)
    \/ BE_WorkerExit
    \/ BE_Close
    \/ BE_Collect

-----------------------------------------------------------------------------
(* BatchFullLocation *)

\* maxConcurrent := 20: the capacity of sem and the number of workers
MaxConcurrent == 20

\* Location{}
ZeroLocation == [Address |-> 0, Elevation |-> 0, Timezone |-> ""]

\* the Location Nominatim answers for a point (Elevation and Timezone not set)
ReverseOf(p) == [Address |-> 10 * p, Elevation |-> 0, Timezone |-> ""]

\* FullLocation(p, geocoder, elevation):
\*   loc, err := geocoder.ReverseGeocode(p); if err != nil { return Location{}, err }
\*   elev, err := elevation.GetElevation(p); if err != nil { return loc, err }
\*   loc.Elevation = elev; loc.Timezone = "UTC"; return loc, nil
FullLocation(i, p) ==
    IF env[i] = "rev"
      THEN [value |-> ZeroLocation, err |-> [msg |-> "reverse", id |-> i]]
      ELSE IF env[i] = "elev"
        THEN [value |-> ReverseOf(p), err |-> [msg |-> "elevation", id |-> i]]
        ELSE [value |-> [ReverseOf(p) EXCEPT !.Elevation = ElevationOf(p),
                                             !.Timezone = "UTC"],
              err |-> NilErr]

InitBatchFullLocation ==
    /\ fn = "BatchFullLocation"
    /\ \E n \in 0..MaxFullN :
         /\ input \in Inputs(n)
         /\ env \in Slices({"ok", "rev", "elev"}, n)
         /\ writes = [i \in 0..(n - 1) |-> 0]
         /\ handed = [i \in 0..(n - 1) |-> 0]
         /\ calls = [i \in 0..(n - 1) |-> 0]
    /\ out = <<>>
    /\ FreshCall

\* for i := 0; i < maxConcurrent; i++ { wg.Add(1); go func() {...}() }
BF_Spawn ==
    /\ fn = "BatchFullLocation" /\ mainpc = "spawn" /\ mi < MaxConcurrent
    /\ wg' = wg + 1
    /\ idle' = idle + 1
    /\ mi' = mi + 1
    /\ spawned' = spawned + 1
    /\ UNCHANGED <<fixedVars, handed, calls, mainpc, tasks, tasksClosed, results,
                   resultsClosed, sem, G, prodpc, pk, closerpc, out, ret,
                   writes, ooo>>

\* go func() { for i, p := range points { tasks <- task{i, p} }; close(tasks) }()
BF_StartProducer ==
    /\ fn = "BatchFullLocation" /\ mainpc = "spawn" /\ mi = MaxConcurrent
    /\ prodpc' = "run"
    /\ mainpc' = "closer"
    /\ UNCHANGED <<fixedVars, handed, calls, mi, tasks, tasksClosed, results, resultsClosed,
                   wg, sem, idle, G, pk, closerpc, out, ret, spawned, writes,
                   ooo>>

\* go func() { wg.Wait(); close(results) }(); locations := make([]Location, len(points))
BF_StartCloser ==
    /\ fn = "BatchFullLocation" /\ mainpc = "closer"
    /\ StartCloser
    /\ out' = MakeSlice(N, ZeroLocation)
    /\ mainpc' = "collect"
    /\ UNCHANGED <<fixedVars, handed, calls, mi, tasks, tasksClosed, results, resultsClosed,
                   wg, sem, idle, G, prodpc, pk, ret, spawned, writes, ooo>>

\* tasks <- task{i, p}
BF_SendTask ==
    /\ fn = "BatchFullLocation"
    /\ SendTask
    /\ UNCHANGED <<fixedVars, handed, calls, mainpc, mi, tasksClosed, results,
                   resultsClosed, wg, sem, idle, G, prodpc, closerpc, out,
                   ret, spawned, writes, ooo>>

\* close(tasks)
BF_CloseTasks ==
    /\ fn = "BatchFullLocation"
    /\ CloseTasks(N)
    /\ UNCHANGED <<fixedVars, handed, calls, mainpc, mi, tasks, results, resultsClosed, wg,
                   sem, idle, G, pk, closerpc, out, ret, spawned, writes, ooo>>

\* for t := range tasks: a worker takes a task
BF_TakeTask ==
    /\ fn = "BatchFullLocation"
    /\ TakeTask("acquire", ZeroLocation)
    /\ UNCHANGED <<fixedVars, calls, mainpc, mi, tasksClosed, results,
                   resultsClosed, wg, sem, prodpc, pk, closerpc, out, ret,
                   spawned, writes, ooo>>

\* sem <- struct{}{}, then the worker is inside FullLocation(t.point, ...)
BF_Acquire(g) ==
    /\ fn = "BatchFullLocation" /\ g.pc = "acquire"
    /\ CanSendSem(sem, MaxConcurrent)
    /\ sem' = sem + 1
    /\ G' = Upd(g, [g EXCEPT !.pc = "call"])
    /\ UNCHANGED <<fixedVars, handed, calls, mainpc, mi, tasks, tasksClosed, results,
                   resultsClosed, wg, idle, prodpc, pk, closerpc, out, ret,
                   spawned, writes, ooo>>

\* loc, err := FullLocation(t.point, geocoder, elevation) returns
BF_FullLocationReturn(g) ==
    /\ fn = "BatchFullLocation" /\ g.pc = "call"
    /\ G' = Upd(g, [g EXCEPT !.pc = "release", !.res = FullLocation(g.idx, g.in)])
    /\ calls' = [calls EXCEPT ![g.idx] = @ + 1]
    /\ UNCHANGED <<fixedVars, handed, mainpc, mi, tasks, tasksClosed, results,
                   resultsClosed, wg, sem, idle, prodpc, pk, closerpc, out,
                   ret, spawned, writes, ooo>>

\* <-sem
BF_Release(g) ==
    /\ fn = "BatchFullLocation" /\ g.pc = "release"
    /\ sem > 0
    /\ sem' = sem - 1
    /\ G' = Upd(g, [g EXCEPT !.pc = "send"])
    /\ UNCHANGED <<fixedVars, handed, calls, mainpc, mi, tasks, tasksClosed, results,
                   resultsClosed, wg, idle, prodpc, pk, closerpc, out, ret,
                   spawned, writes, ooo>>

\* results <- result{t.index, loc, err}
BF_SendResult(g) ==
    /\ fn = "BatchFullLocation"
    /\ SendResult(g, N)
    /\ UNCHANGED <<fixedVars, handed, calls, mainpc, mi, tasks, tasksClosed, resultsClosed,
                   wg, sem, prodpc, pk, closerpc, out, ret, spawned, writes,
                   ooo>>

\* the range loop of a worker ends; deferred wg.Done()
BF_WorkerExit ==
    /\ fn = "BatchFullLocation"
    /\ WorkerExit
    /\ UNCHANGED <<fixedVars, handed, calls, mainpc, mi, tasks, tasksClosed, results,
                   resultsClosed, sem, G, prodpc, pk, closerpc, out, ret,
                   spawned, writes, ooo>>

\* go func() { wg.Wait(); close(results) }()
BF_Close ==
    /\ fn = "BatchFullLocation"
    /\ WaitAndClose
    /\ UNCHANGED <<fixedVars, handed, calls, mainpc, mi, tasks, tasksClosed, results, wg,
                   sem, idle, G, prodpc, pk, out, ret, spawned, writes, ooo>>

\* for res := range results {...}; return locations, nil
BF_Collect ==
    /\ fn = "BatchFullLocation"
    /\ CollectStep
    /\ UNCHANGED <<fixedVars, handed, calls, mi, tasks, tasksClosed, resultsClosed, wg, sem,
                   idle, G, prodpc, pk, closerpc, spawned>>

BatchFullLocation ==
    \/ BF_Spawn
    \/ BF_StartProducer
    \/ BF_StartCloser
    \/ BF_SendTask
    \/ BF_CloseTasks
    \/ BF_TakeTask
    \/ \E g \in G : BF_Acquire(g)
    \/ \E g \in G : BF_FullLocationReturn(g)
    \/ \E g \in G : BF_Release(g)
    \/ \E g \in G : BF_SendResult(g)
    \/ BF_WorkerExit
    \/ BF_Close
    \/ BF_Collect

-----------------------------------------------------------------------------
(* BatchDistanceConcurrent *)

\* numWorkers := 8
DistanceWorkers == 8

\* the caller's distanceFunc, one of: "abs", symmetric with d(p, p) = 0 (as
\* DistanceHaversine is); "directed", not symmetric; "offset", symmetric with
\* d(p, p) /= 0
DistanceFuncs == {"abs", "directed", "offset"}

Abs(x) == IF x < 0 THEN -x ELSE x

\* distanceFunc(p1, p2)
DistanceFunc(p1, p2) ==
    CASE env = "abs" -> Abs(p1 - p2)
      [] env = "directed" -> IF p1 < p2 THEN p2 - p1 ELSE 2 * (p1 - p2)
      [] env = "offset" -> Abs(p1 - p2) + 1

\* channels made with one slot per point instead of one per pair
PairCapPerPoint(n) == n

\* cap(tasks) = n*(n-1)/2
PairCap(n) == (n * (n - 1)) \div 2

\* for i := 0; i < n; i++ { for j := i + 1; j < n; j++ { tasks <- task{i, j} } }:
\* the tasks in the order the loops send them, from position (i, j) on
RECURSIVE PairsFrom(_, _, _)
PairsFrom(i, j, n) ==
    IF i >= n THEN <<>>
    ELSE IF j >= n THEN PairsFrom(i + 1, i + 2, n)
    ELSE <<[i |-> i, j |-> j]>> \o PairsFrom(i, j + 1, n)

\* a producer whose inner loop starts at j := i
PairsFromDiagonal(n) == PairsFrom(0, 0, n)

Pairs(n) == PairsFrom(0, 1, n)

\* matrix := make([][]float64, n); for i := range matrix { matrix[i] = make([]float64, n) }
MakeMatrix(n) == [i \in 0..(n - 1) |-> [j \in 0..(n - 1) |-> Zero]]

InitBatchDistanceConcurrent ==
    /\ fn = "BatchDistanceConcurrent"
    /\ \E n \in 0..MaxN :
         /\ input \in Inputs(n)
         /\ writes = [c \in (0..(n - 1)) \X (0..(n - 1)) |-> 0]
         /\ handed = <<>>
         /\ calls = [c \in (0..(n - 1)) \X (0..(n - 1)) |-> 0]
         /\ out = MakeMatrix(n)
    /\ env \in DistanceFuncs
    /\ FreshCall

\* for w := 0; w < numWorkers; w++ { wg.Add(1); go func() {...}() }
BD_Spawn ==
    /\ fn = "BatchDistanceConcurrent" /\ mainpc = "spawn" /\ mi < DistanceWorkers
    /\ wg' = wg + 1
    /\ idle' = idle + 1
    /\ mi' = mi + 1
    /\ spawned' = spawned + 1
    /\ UNCHANGED <<fixedVars, handed, calls, mainpc, tasks, tasksClosed, results,
                   resultsClosed, sem, G, prodpc, pk, closerpc, out, ret,
                   writes, ooo>>

\* go func() { for i ... { for j ... { tasks <- task{i, j} } }; close(tasks) }()
BD_StartProducer ==
    /\ fn = "BatchDistanceConcurrent" /\ mainpc = "spawn" /\ mi = DistanceWorkers
    /\ prodpc' = "run"
    /\ mainpc' = "closer"
    /\ UNCHANGED <<fixedVars, handed, calls, mi, tasks, tasksClosed, results, resultsClosed,
                   wg, sem, idle, G, pk, closerpc, out, ret, spawned, writes,
                   ooo>>

\* go func() { wg.Wait(); close(results) }()
BD_StartCloser ==
    /\ fn = "BatchDistanceConcurrent" /\ mainpc = "closer"
    /\ StartCloser
    /\ mainpc' = "collect"
    /\ UNCHANGED <<fixedVars, handed, calls, mi, tasks, tasksClosed, results, resultsClosed,
                   wg, sem, idle, G, prodpc, pk, out, ret, spawned, writes,
                   ooo>>

\* tasks <- task{i, j}
BD_SendTask ==
    /\ fn = "BatchDistanceConcurrent"
    /\ prodpc = "run" /\ pk < Len(Pairs(N))
    /\ CanSend(tasks, PairCap(N))
    /\ tasks' = Append(tasks, Pairs(N)[pk + 1])
    /\ pk' = pk + 1
    /\ UNCHANGED <<fixedVars, handed, calls, mainpc, mi, tasksClosed, results,
                   resultsClosed, wg, sem, idle, G, prodpc, closerpc, out,
                   ret, spawned, writes, ooo>>

\* close(tasks)
BD_CloseTasks ==
    /\ fn = "BatchDistanceConcurrent"
    /\ CloseTasks(Len(Pairs(N)))
    /\ UNCHANGED <<fixedVars, handed, calls, mainpc, mi, tasks, results, resultsClosed, wg,
                   sem, idle, G, pk, closerpc, out, ret, spawned, writes, ooo>>

\* a worker that reads the head of tasks and leaves it in the channel
BD_TakeTaskLeavesIt ==
    /\ fn = "BatchDistanceConcurrent"
    /\ idle > 0
    /\ CanRecv(tasks)
    /\ tasks' = tasks
    /\ idle' = idle - 1
    /\ G' = G \cup {[i |-> Head(tasks).i, j |-> Head(tasks).j, pc |-> "call",
                      dist |-> Zero]}
    /\ UNCHANGED <<fixedVars, handed, calls, mainpc, mi, tasksClosed, results,
                   resultsClosed, wg, sem, prodpc, pk, closerpc, out, ret,
                   spawned, writes, ooo>>

\* for t := range tasks: a worker takes a task and enters distanceFunc
BD_TakeTask ==
    /\ fn = "BatchDistanceConcurrent"
    /\ idle > 0
    /\ CanRecv(tasks)
    /\ tasks' = Tail(tasks)
    /\ idle' = idle - 1
    /\ G' = G \cup {[i |-> Head(tasks).i, j |-> Head(tasks).j, pc |-> "call",
                      dist |-> Zero]}
    /\ UNCHANGED <<fixedVars, handed, calls, mainpc, mi, tasksClosed, results,
                   resultsClosed, wg, sem, prodpc, pk, closerpc, out, ret,
                   spawned, writes, ooo>>

\* dist := distanceFunc(points[t.i], points[t.j]) returns
BD_DistanceReturn(g) ==
    /\ fn = "BatchDistanceConcurrent" /\ g.pc = "call"
    /\ G' = Upd(g, [g EXCEPT !.pc = "send",
                             !.dist = DistanceFunc(input[g.i], input[g.j])])
    /\ calls' = [calls EXCEPT ![<<g.i, g.j>>] = @ + 1]
    /\ UNCHANGED <<fixedVars, handed, mainpc, mi, tasks, tasksClosed, results,
                   resultsClosed, wg, sem, idle, prodpc, pk, closerpc, out,
                   ret, spawned, writes, ooo>>

\* results <- struct{ i, j int; dist float64 }{t.i, t.j, dist}
BD_SendResult(g) ==
    /\ fn = "BatchDistanceConcurrent" /\ g.pc = "send"
    /\ CanSend(results, PairCap(N))
    /\ results' = Append(results, [i |-> g.i, j |-> g.j, dist |-> g.dist])
    /\ G' = G \ {g}
    /\ idle' = idle + 1
    /\ UNCHANGED <<fixedVars, handed, calls, mainpc, mi, tasks, tasksClosed, resultsClosed,
                   wg, sem, prodpc, pk, closerpc, out, ret, spawned, writes,
                   ooo>>

\* the range loop of a worker ends; deferred wg.Done()
BD_WorkerExit ==
    /\ fn = "BatchDistanceConcurrent"
    /\ WorkerExit
    /\ UNCHANGED <<fixedVars, handed, calls, mainpc, mi, tasks, tasksClosed, results,
                   resultsClosed, sem, G, prodpc, pk, closerpc, out, ret,
                   spawned, writes, ooo>>

\* go func() { wg.Wait(); close(results) }()
BD_Close ==
    /\ fn = "BatchDistanceConcurrent"
    /\ WaitAndClose
    /\ UNCHANGED <<fixedVars, handed, calls, mainpc, mi, tasks, tasksClosed, results, wg,
                   sem, idle, G, prodpc, pk, out, ret, spawned, writes, ooo>>

\* for res := range results {
\*     matrix[res.i][res.j] = res.dist; matrix[res.j][res.i] = res.dist }
\* return matrix
BD_Collect ==
    /\ fn = "BatchDistanceConcurrent" /\ mainpc = "collect"
    /\ \/ /\ CanRecv(results)
          /\ LET res == Head(results) IN
             /\ results' = Tail(results)
             /\ out' = [[out EXCEPT ![res.i][res.j] = res.dist]
                             EXCEPT ![res.j][res.i] = res.dist]
             /\ writes' = [[writes EXCEPT ![<<res.i, res.j>>] = @ + 1]
                                   EXCEPT ![<<res.j, res.i>>] = @ + 1]
             /\ UNCHANGED <<ret, mainpc, ooo>>
       \/ /\ Drained(results, resultsClosed)
          /\ ret' = ReturnOk(out)
          /\ mainpc' = "returned"
          /\ UNCHANGED <<results, out, writes, ooo>>
    /\ UNCHANGED <<fixedVars, handed, calls, mi, tasks, tasksClosed, resultsClosed, wg, sem,
                   idle, G, prodpc, pk, closerpc, spawned>>

BatchDistanceConcurrent ==
    \/ BD_Spawn
    \/ BD_StartProducer
    \/ BD_StartCloser
    \/ BD_SendTask
    \/ BD_CloseTasks
    \/ BD_TakeTask
    \/ \E g \in G : BD_DistanceReturn(g)
    \/ \E g \in G : BD_SendResult(g)
    \/ BD_WorkerExit
    \/ BD_Close
    \/ BD_Collect

-----------------------------------------------------------------------------
(* IsPointInPolygon, FilterPointsInPolygonConcurrent *)

\* batchSize := 1000 in the source.  The model runs the same code with the
\* batch size scaled down, so that an input of more than one batch, which the
\* source hands to several goroutines, is within MaxN points
BatchSize == 2

\* x < a/d for integers x, a and d /= 0, as the float64 comparison decides it
\* on small integers
LessThanQuotient(x, a, d) == IF d > 0 THEN x * d < a ELSE x * d > a

\* the loop of IsPointInPolygon from vertex i on, j the vertex before i:
\*   if (polygon[i].Lon > p.Lon) != (polygon[j].Lon > p.Lon) &&
\*      p.Lat < (polygon[j].Lat-polygon[i].Lat)*(p.Lon-polygon[i].Lon)/
\*              (polygon[j].Lon-polygon[i].Lon)+polygon[i].Lat { inside = !inside }
\*   j = i
RECURSIVE RayCast(_, _, _, _, _)
RayCast(p, polygon, i, j, inside) ==
    IF i >= Cardinality(DOMAIN polygon) THEN inside
    ELSE LET crosses ==
               /\ (polygon[i].Lon > p.Lon) /= (polygon[j].Lon > p.Lon)
               /\ LessThanQuotient(p.Lat - polygon[i].Lat,
                      (polygon[j].Lat - polygon[i].Lat) * (p.Lon - polygon[i].Lon),
                      polygon[j].Lon - polygon[i].Lon)
         IN RayCast(p, polygon, i + 1, i, IF crosses THEN ~inside ELSE inside)

\* IsPointInPolygon(p, polygon)
IsPointInPolygon(p, polygon) ==
    IF Cardinality(DOMAIN polygon) < 3 THEN FALSE
    ELSE RayCast(p, polygon, 0, Cardinality(DOMAIN polygon) - 1, FALSE)

Pt(lat, lon) == [Lat |-> lat, Lon |-> lon]

\* a slice from a tuple: 0-based
SliceOf(seq) == [i \in 0..(Len(seq) - 1) |-> seq[i + 1]]

\* the polygons of the model: a square, a triangle, a polygon with a notch
\* and a degenerate one of two vertices
Polygons ==
    { SliceOf(<<Pt(0, 0), Pt(0, 4), Pt(4, 4), Pt(4, 0)>>),
      SliceOf(<<Pt(0, 0), Pt(0, 6), Pt(6, 0)>>),
      SliceOf(<<Pt(0, 0), Pt(0, 4), Pt(2, 2), Pt(4, 4), Pt(4, 0)>>),
      SliceOf(<<Pt(0, 0), Pt(4, 4)>>) }

\* the points of the model
PolyPoints == {Pt(1, 1), Pt(3, 2), Pt(5, 5)}

\* batchSize := 1000; if len(points) < 1000 { batchSize = len(points) }
BatchSizeOf(n) == IF n < BatchSize THEN n ELSE BatchSize

\* a batch that stops one point short of the end of the input
BatchEndShort(i, n) ==
    IF i + BatchSizeOf(n) >= n THEN n - 1 ELSE i + BatchSizeOf(n)

\* end := i + batchSize; if end > len(points) { end = len(points) }
BatchEnd(i, n) == IF i + BatchSizeOf(n) > n THEN n ELSE i + BatchSizeOf(n)

InitFilterPointsInPolygonConcurrent ==
    /\ fn = "FilterPointsInPolygonConcurrent"
    /\ \E n \in 0..MaxN :
         /\ input \in Slices(PolyPoints, n)
         /\ writes = [i \in 0..(n - 1) |-> 0]
         /\ handed = <<>> /\ calls = <<>>
    /\ env \in Polygons
    /\ out = <<>>
    /\ FreshCall

\* for i := 0; i < len(points); i += batchSize { ...; wg.Add(1); go func(start, end int) {...}(i, end) }
FP_Spawn ==
    /\ fn = "FilterPointsInPolygonConcurrent" /\ mainpc = "spawn" /\ mi < N
    /\ wg' = wg + 1
    /\ G' = G \cup {[start |-> mi, end |-> BatchEnd(mi, N), j |-> mi]}
    /\ mi' = mi + BatchSizeOf(N)
    /\ spawned' = spawned + 1
    /\ UNCHANGED <<fixedVars, handed, calls, mainpc, tasks, tasksClosed, results,
                   resultsClosed, sem, idle, prodpc, pk, closerpc, out, ret,
                   writes, ooo>>

\* go func() { wg.Wait(); close(results) }(); filtered := make([]Point, 0, len(points))
FP_StartCloser ==
    /\ fn = "FilterPointsInPolygonConcurrent" /\ mainpc = "spawn" /\ mi >= N
    /\ StartCloser
    /\ out' = <<>>
    /\ mainpc' = "collect"
    /\ UNCHANGED <<fixedVars, handed, calls, mi, tasks, tasksClosed, results, resultsClosed,
                   wg, sem, idle, G, prodpc, pk, ret, spawned, writes, ooo>>

\* for j := start; j < end; j++ {
\*     valid := IsPointInPolygon(points[j], polygon); results <- result{j, valid} }
FP_Send(g) ==
    /\ fn = "FilterPointsInPolygonConcurrent" /\ g.j < g.end
    /\ CanSend(results, N)
    /\ results' = Append(results, [index |-> g.j,
                                   valid |-> IsPointInPolygon(input[g.j], env)])
    /\ G' = Upd(g, [g EXCEPT !.j = g.j + 1])
    /\ UNCHANGED <<fixedVars, handed, calls, mainpc, mi, tasks, tasksClosed, resultsClosed,
                   wg, sem, idle, prodpc, pk, closerpc, out, ret, spawned,
                   writes, ooo>>

\* the loop of a goroutine ends; deferred wg.Done()
FP_Done(g) ==
    /\ fn = "FilterPointsInPolygonConcurrent" /\ g.j >= g.end
    /\ wg' = wg - 1
    /\ G' = G \ {g}
    /\ UNCHANGED <<fixedVars, handed, calls, mainpc, mi, tasks, tasksClosed, results,
                   resultsClosed, sem, idle, prodpc, pk, closerpc, out, ret,
                   spawned, writes, ooo>>

\* go func() { wg.Wait(); close(results) }()
FP_Close ==
    /\ fn = "FilterPointsInPolygonConcurrent"
    /\ WaitAndClose
    /\ UNCHANGED <<fixedVars, handed, calls, mainpc, mi, tasks, tasksClosed, results, wg,
                   sem, idle, G, prodpc, pk, out, ret, spawned, writes, ooo>>

\* for res := range results { if res.valid { filtered = append(filtered, points[res.index]) } }
\* return filtered
FP_Collect ==
    /\ fn = "FilterPointsInPolygonConcurrent" /\ mainpc = "collect"
    /\ \/ /\ CanRecv(results)
          /\ LET res == Head(results) IN
             /\ results' = Tail(results)
             /\ ooo' = (ooo \/ \E i \in DOMAIN writes : i > res.index /\ writes[i] > 0)
             /\ IF res.valid
                  THEN /\ out' = Append(out, input[res.index])
                       /\ writes' = [writes EXCEPT ![res.index] = @ + 1]
                  ELSE UNCHANGED <<out, writes>>
             /\ UNCHANGED <<ret, mainpc>>
       \/ /\ Drained(results, resultsClosed)
          /\ ret' = ReturnOk(out)
          /\ mainpc' = "returned"
          /\ UNCHANGED <<results, out, writes, ooo>>
    /\ UNCHANGED <<fixedVars, handed, calls, mi, tasks, tasksClosed, resultsClosed, wg, sem,
                   idle, G, prodpc, pk, closerpc, spawned>>

FilterPointsInPolygonConcurrent ==
    \/ FP_Spawn
    \/ FP_StartCloser
    \/ \E g \in G : FP_Send(g)
    \/ \E g \in G : FP_Done(g)
    \/ FP_Close
    \/ FP_Collect

-----------------------------------------------------------------------------
(* Cache: NewCache, Set, Get, cleanup *)

\* the latest instant of the model's clock
MaxTime == 4
\* the longest ttl a Cache is made with
MaxTTL == 2

Keys == {"k1", "k2"}
Values == {"v1", "v2"}

\* the nil interface{} value
NilValue == "nil"

\* an entry that is expired at the instant of its expiry
AfterOrEqual(t, u) == t >= u

\* time.Time.After: t.After(u) reports whether t is after u
After(t, u) == t > u

\* a Set that forgets the ttl
ExpiryNoTTL(t, d) == t

\* time.Now().Add(c.ttl)
Expiry(t, d) == t + d

\* item, found := c.items[key]
Found(key) == key \in DOMAIN items

\* the condition of Get's early return: !found || time.Now().After(item.expiry)
GetMisses(key) == ~Found(key) \/ After(now, items[key].expiry)

\* a sweep that also deletes the entries that expire at its own time
SweepDeletesAtExpiry(v, t) == t >= v.expiry

\* the condition under which cleanup deletes entry v at its time t:
\* now.After(v.expiry)
SweepDeletes(v, t) == After(t, v.expiry)

\* no Get yet, no Set yet
NoGet == [called |-> FALSE]
NoSet == [called |-> FALSE]

\* the variables of a batch call and of the load model, not used by the cache
ParkedBatch ==
    /\ fn = "Cache" /\ input = <<>> /\ env = <<>>
    /\ mainpc = "none" /\ mi = 0
    /\ tasks = <<>> /\ tasksClosed = FALSE
    /\ results = <<>> /\ resultsClosed = FALSE
    /\ wg = 0 /\ sem = 0 /\ idle = 0 /\ G = {}
    /\ prodpc = "none" /\ pk = 0 /\ closerpc = "none"
    /\ out = <<>> /\ ret = Pending /\ spawned = 0 /\ writes = <<>>
    /\ ooo = FALSE /\ handed = <<>> /\ calls = <<>>

\* NewCache(ttl): an empty map; the cleanup goroutine is started
InitCache ==
    /\ now = 0
    /\ ttl \in 1..MaxTTL
    /\ items = <<>>
    /\ lastGet = NoGet
    /\ lastSet = [k \in Keys |-> NoSet]
    /\ ParkedBatch /\ ParkedLoad

\* a Set that leaves the expiry of an entry it overwrites as it was
SetKeepsExpiry(key, value) ==
    /\ items' = (key :> [value |-> value,
                         expiry |-> IF Found(key) THEN items[key].expiry
                                    ELSE Expiry(now, ttl)]) @@ items
    /\ lastSet' = [lastSet EXCEPT ![key] = [called |-> TRUE, value |-> value,
                                            at |-> now, swept |-> FALSE,
                                            sweptAt |-> -1]]
    /\ UNCHANGED <<now, ttl, lastGet, batchVars, L, W>>

\* func (c *Cache) Set(key string, value interface{}):
\*   c.items[key] = cacheItem{value: value, expiry: time.Now().Add(c.ttl)}
Set(key, value) ==
    /\ items' = (key :> [value |-> value, expiry |-> Expiry(now, ttl)]) @@ items
    /\ lastSet' = [lastSet EXCEPT ![key] = [called |-> TRUE, value |-> value,
                                            at |-> now, swept |-> FALSE,
                                            sweptAt |-> -1]]
    /\ UNCHANGED <<now, ttl, lastGet, batchVars, L, W>>

\* a Get that deletes the expired entry it finds
GetEvicts(key) ==
    /\ lastGet' = [called |-> TRUE, key |-> key, at |-> now,
                   value |-> IF GetMisses(key) THEN NilValue ELSE items[key].value,
                   found |-> ~GetMisses(key),
                   present |-> Found(key),
                   expiry |-> IF Found(key) THEN items[key].expiry ELSE -1,
                   set |-> lastSet[key]]
    /\ items' = IF Found(key) /\ GetMisses(key)
                 THEN [k \in DOMAIN items \ {key} |-> items[k]]
                 ELSE items
    /\ UNCHANGED <<now, ttl, lastSet, batchVars, L, W>>

\* func (c *Cache) Get(key string) (interface{}, bool):
\*   item, found := c.items[key]
\*   if !found || time.Now().After(item.expiry) { return nil, false }
\*   return item.value, true
\* lastGet keeps what was returned and, for the properties, what the call saw
Get(key) ==
    /\ lastGet' = [called |-> TRUE, key |-> key, at |-> now,
                   value |-> IF GetMisses(key) THEN NilValue ELSE items[key].value,
                   found |-> ~GetMisses(key),
                   present |-> Found(key),
                   expiry |-> IF Found(key) THEN items[key].expiry ELSE -1,
                   set |-> lastSet[key]]
    /\ UNCHANGED <<now, ttl, items, lastSet, batchVars, L, W>>

\* a sweep that empties the map
CleanupEverything ==
    /\ items' = <<>>
    /\ lastSet' = [k \in Keys |-> IF lastSet[k].called
                                    THEN [lastSet[k] EXCEPT !.swept = TRUE,
                                                            !.sweptAt = now]
                                    ELSE lastSet[k]]
    /\ UNCHANGED <<now, ttl, lastGet, batchVars, L, W>>

\* one pass of func (c *Cache) cleanup(), on a tick of its ticker:
\*   now := time.Now()
\*   for k, v := range c.items { if now.After(v.expiry) { delete(c.items, k) } }
Cleanup ==
    /\ items' = [k \in {k \in DOMAIN items : ~SweepDeletes(items[k], now)}
                   |-> items[k]]
    /\ lastSet' = [k \in Keys |-> IF lastSet[k].called
                                    THEN [lastSet[k] EXCEPT !.swept = TRUE,
                                                            !.sweptAt = now]
                                    ELSE lastSet[k]]
    /\ UNCHANGED <<now, ttl, lastGet, batchVars, L, W>>

\* the clock advances
Tick ==
    /\ now < MaxTime
    /\ now' = now + 1
    /\ UNCHANGED <<ttl, items, lastGet, lastSet, batchVars, L, W>>

NextCache ==
    \/ \E k \in Keys, v \in Values : Set(k, v)
    \/ \E k \in Keys : Get(k)
    \/ Cleanup
    \/ Tick

SpecCache == InitCache /\ [][NextCache]_vars

-----------------------------------------------------------------------------
(* The batches under load.                                                 *)
(*                                                                         *)
(* The concurrency limits of the source are 10, 8, 20 and 8; an input that *)
(* exceeds them has more tasks than a model that tells the tasks apart can *)
(* explore.  SpecLoad runs the same goroutines on such inputs and keeps,   *)
(* in the record L, only how many goroutines are at each statement and how *)
(* many items each channel holds: which task a goroutine holds and what a  *)
(* result carries is left out, so a result the collector receives may or   *)
(* may not carry an error.                                                 *)
(*   L.acq, L.call, L.rel, L.send, L.fin: goroutines about to acquire sem, *)
(*   inside the work function, about to release sem, about to send their   *)
(*   result, about to call wg.Done; L.idle: workers at `range tasks`;      *)
(*   L.q, L.r: items in tasks and results; L.live: worker goroutines       *)
(*   started and not yet ended.                                            *)
(***************************************************************************)

\* how many tasks more than the concurrency limit the inputs of SpecLoad have
LoadExtra == 1

\* the state of a call on n inputs that make `total` tasks; tcap and rcap are
\* the capacities the tasks and results channels are made with (BatchGeocode
\* has no tasks channel)
LoadCall(f, n, total) ==
    [fn |-> f, n |-> n, total |-> total, mainpc |-> "spawn", mi |-> 0,
     tcap |-> IF f = "BatchDistanceConcurrent" THEN PairCap(n)
              ELSE IF f = "BatchGeocode" THEN 0 ELSE n,
     rcap |-> IF f = "BatchDistanceConcurrent" THEN PairCap(n) ELSE n,
     prod |-> "none", pk |-> 0, q |-> 0, tclosed |-> FALSE,
     idle |-> 0, acq |-> 0, call |-> 0, rel |-> 0, send |-> 0, fin |-> 0,
     r |-> 0, rclosed |-> FALSE, wg |-> 0, sem |-> 0, closer |-> "none",
     got |-> 0, failed |-> FALSE, live |-> 0]

\* the detailed batch and the cache are not used under load
ParkedDetail ==
    /\ fn = "Load" /\ input = <<>> /\ env = <<>>
    /\ mainpc = "none" /\ mi = 0
    /\ tasks = <<>> /\ tasksClosed = FALSE
    /\ results = <<>> /\ resultsClosed = FALSE
    /\ wg = 0 /\ sem = 0 /\ idle = 0 /\ G = {}
    /\ prodpc = "none" /\ pk = 0 /\ closerpc = "none"
    /\ out = <<>> /\ ret = Pending /\ spawned = 0 /\ writes = <<>>
    /\ ooo = FALSE /\ handed = <<>> /\ calls = <<>>

InitLoad ==
    /\ \/ \E n \in {1, GeocodeSem + LoadExtra} :
            L = LoadCall("BatchGeocode", n, n)
       \/ \E n \in {1, ElevationWorkers(8) + LoadExtra} :
            L = LoadCall("BatchGetElevation", n, n)
       \/ \E n \in {1, MaxConcurrent + LoadExtra} :
            L = LoadCall("BatchFullLocation", n, n)
       \/ \E n \in {2, 4 + LoadExtra} :
            L = LoadCall("BatchDistanceConcurrent", n, Len(Pairs(n)))
    /\ ParkedDetail /\ ParkedCache /\ W = <<>>

\* a step of the batch under load: L becomes l, nothing else moves
LoadTo(l) == L' = l /\ UNCHANGED <<batchVars, cacheVars, W>>

\* the collector of a batch, one iteration: a result is received, and the
\* loop goes on or (res.err != nil, where the batch returns errors) the call
\* returns; or the channel is closed and drained and the call returns
LoadCollect(canFail) ==
    /\ L.mainpc = "collect"
    /\ \/ /\ L.r > 0
          /\ \/ LoadTo([L EXCEPT !.r = @ - 1, !.got = @ + 1])
             \/ /\ canFail
                /\ LoadTo([L EXCEPT !.r = @ - 1, !.got = @ + 1,
                                  !.mainpc = "returned", !.failed = TRUE])
       \/ /\ L.r = 0 /\ L.rclosed
          /\ LoadTo([L EXCEPT !.mainpc = "returned"])

\* go func() { wg.Wait(); close(results) }()
LoadClose ==
    /\ L.closer = "wait" /\ L.wg = 0
    /\ LoadTo([L EXCEPT !.rclosed = TRUE, !.closer = "done"])

\* the producer: tasks <- task{...}
LoadSendTask(capacity) ==
    /\ L.prod = "run" /\ L.pk < L.total
    /\ L.q < capacity
    /\ LoadTo([L EXCEPT !.q = @ + 1, !.pk = @ + 1])

\* the producer: close(tasks)
LoadCloseTasks ==
    /\ L.prod = "run" /\ L.pk = L.total
    /\ LoadTo([L EXCEPT !.tclosed = TRUE, !.prod = "done"])

\* a pool worker's range loop ends; deferred wg.Done()
LoadWorkerExit ==
    /\ L.idle > 0 /\ L.q = 0 /\ L.tclosed
    /\ LoadTo([L EXCEPT !.idle = @ - 1, !.wg = @ - 1, !.live = @ - 1])

\* the calling goroutine starts a pool worker: wg.Add(1); go func() {...}()
LoadSpawnWorker(count) ==
    /\ L.mainpc = "spawn" /\ L.mi < count
    /\ LoadTo([L EXCEPT !.wg = @ + 1, !.idle = @ + 1, !.mi = @ + 1,
                      !.live = @ + 1])

\* the calling goroutine starts the producer
LoadStartProducer(count) ==
    /\ L.mainpc = "spawn" /\ L.mi = count
    /\ LoadTo([L EXCEPT !.prod = "run", !.mainpc = "closer"])

\* the calling goroutine starts the closer
LoadStartCloser ==
    /\ L.mainpc = "closer"
    /\ LoadTo([L EXCEPT !.closer = "wait", !.mainpc = "collect"])

\* BatchGeocode: one goroutine per address
LG_Spawn ==
    /\ L.fn = "BatchGeocode" /\ L.mainpc = "spawn" /\ L.mi < L.n
    /\ LoadTo([L EXCEPT !.wg = @ + 1, !.acq = @ + 1, !.mi = @ + 1, !.live = @ + 1])

LG_StartCloser ==
    /\ L.fn = "BatchGeocode" /\ L.mainpc = "spawn" /\ L.mi = L.n
    /\ LoadTo([L EXCEPT !.closer = "wait", !.mainpc = "collect"])

LG_Acquire ==
    /\ L.fn = "BatchGeocode" /\ L.acq > 0
    /\ CanSendSem(L.sem, GeocodeSem)
    /\ LoadTo([L EXCEPT !.acq = @ - 1, !.call = @ + 1, !.sem = @ + 1])

LG_GeocodeReturn ==
    /\ L.fn = "BatchGeocode" /\ L.call > 0
    /\ LoadTo([L EXCEPT !.call = @ - 1, !.send = @ + 1])

LG_Send ==
    /\ L.fn = "BatchGeocode" /\ L.send > 0
    /\ L.r < L.n
    /\ LoadTo([L EXCEPT !.send = @ - 1, !.rel = @ + 1, !.r = @ + 1])

LG_Release ==
    /\ L.fn = "BatchGeocode" /\ L.rel > 0 /\ L.sem > 0
    /\ LoadTo([L EXCEPT !.rel = @ - 1, !.fin = @ + 1, !.sem = @ - 1])

LG_Done ==
    /\ L.fn = "BatchGeocode" /\ L.fin > 0
    /\ LoadTo([L EXCEPT !.fin = @ - 1, !.wg = @ - 1, !.live = @ - 1])

LG_Close == L.fn = "BatchGeocode" /\ LoadClose

LG_Collect == L.fn = "BatchGeocode" /\ LoadCollect(TRUE)

\* BatchGetElevation: min(8, n) workers
LE_Spawn == L.fn = "BatchGetElevation" /\ LoadSpawnWorker(ElevationWorkers(L.n))

LE_StartProducer ==
    L.fn = "BatchGetElevation" /\ LoadStartProducer(ElevationWorkers(L.n))

LE_StartCloser == L.fn = "BatchGetElevation" /\ LoadStartCloser

LE_SendTask == L.fn = "BatchGetElevation" /\ LoadSendTask(L.n)

LE_CloseTasks == L.fn = "BatchGetElevation" /\ LoadCloseTasks

LE_TakeTask ==
    /\ L.fn = "BatchGetElevation" /\ L.idle > 0 /\ L.q > 0
    /\ LoadTo([L EXCEPT !.idle = @ - 1, !.q = @ - 1, !.call = @ + 1])

LE_GetElevationReturn ==
    /\ L.fn = "BatchGetElevation" /\ L.call > 0
    /\ LoadTo([L EXCEPT !.call = @ - 1, !.send = @ + 1])

LE_SendResult ==
    /\ L.fn = "BatchGetElevation" /\ L.send > 0
    /\ L.r < L.n
    /\ LoadTo([L EXCEPT !.send = @ - 1, !.idle = @ + 1, !.r = @ + 1])

LE_WorkerExit == L.fn = "BatchGetElevation" /\ LoadWorkerExit

LE_Close == L.fn = "BatchGetElevation" /\ LoadClose

LE_Collect == L.fn = "BatchGetElevation" /\ LoadCollect(TRUE)

\* BatchFullLocation: 20 workers, sem of capacity 20
LF_Spawn == L.fn = "BatchFullLocation" /\ LoadSpawnWorker(MaxConcurrent)

LF_StartProducer == L.fn = "BatchFullLocation" /\ LoadStartProducer(MaxConcurrent)

LF_StartCloser == L.fn = "BatchFullLocation" /\ LoadStartCloser

LF_SendTask == L.fn = "BatchFullLocation" /\ LoadSendTask(L.n)

LF_CloseTasks == L.fn = "BatchFullLocation" /\ LoadCloseTasks

LF_TakeTask ==
    /\ L.fn = "BatchFullLocation" /\ L.idle > 0 /\ L.q > 0
    /\ LoadTo([L EXCEPT !.idle = @ - 1, !.q = @ - 1, !.acq = @ + 1])

LF_Acquire ==
    /\ L.fn = "BatchFullLocation" /\ L.acq > 0
    /\ CanSendSem(L.sem, MaxConcurrent)
    /\ LoadTo([L EXCEPT !.acq = @ - 1, !.call = @ + 1, !.sem = @ + 1])

\* FullLocation returns and the worker takes its token back (`<-sem`, which
\* cannot block: the worker holds a token) in the same step
LF_FullLocationReturn ==
    /\ L.fn = "BatchFullLocation" /\ L.call > 0 /\ L.sem > 0
    /\ LoadTo([L EXCEPT !.call = @ - 1, !.send = @ + 1, !.sem = @ - 1])

LF_SendResult ==
    /\ L.fn = "BatchFullLocation" /\ L.send > 0
    /\ L.r < L.n
    /\ LoadTo([L EXCEPT !.send = @ - 1, !.idle = @ + 1, !.r = @ + 1])

LF_WorkerExit == L.fn = "BatchFullLocation" /\ LoadWorkerExit

LF_Close == L.fn = "BatchFullLocation" /\ LoadClose

LF_Collect == L.fn = "BatchFullLocation" /\ LoadCollect(TRUE)

\* BatchDistanceConcurrent: 8 workers, n*(n-1)/2 tasks
LD_Spawn == L.fn = "BatchDistanceConcurrent" /\ LoadSpawnWorker(DistanceWorkers)

LD_StartProducer ==
    L.fn = "BatchDistanceConcurrent" /\ LoadStartProducer(DistanceWorkers)

LD_StartCloser == L.fn = "BatchDistanceConcurrent" /\ LoadStartCloser

LD_SendTask == L.fn = "BatchDistanceConcurrent" /\ LoadSendTask(PairCap(L.n))

LD_CloseTasks == L.fn = "BatchDistanceConcurrent" /\ LoadCloseTasks

LD_TakeTask ==
    /\ L.fn = "BatchDistanceConcurrent" /\ L.idle > 0 /\ L.q > 0
    /\ LoadTo([L EXCEPT !.idle = @ - 1, !.q = @ - 1, !.call = @ + 1])

LD_DistanceReturn ==
    /\ L.fn = "BatchDistanceConcurrent" /\ L.call > 0
    /\ LoadTo([L EXCEPT !.call = @ - 1, !.send = @ + 1])

LD_SendResult ==
    /\ L.fn = "BatchDistanceConcurrent" /\ L.send > 0
    /\ L.r < PairCap(L.n)
    /\ LoadTo([L EXCEPT !.send = @ - 1, !.idle = @ + 1, !.r = @ + 1])

LD_WorkerExit == L.fn = "BatchDistanceConcurrent" /\ LoadWorkerExit

LD_Close == L.fn = "BatchDistanceConcurrent" /\ LoadClose

LD_Collect == L.fn = "BatchDistanceConcurrent" /\ LoadCollect(FALSE)

NextLoad ==
    \/ LG_Spawn \/ LG_StartCloser \/ LG_Acquire \/ LG_GeocodeReturn
    \/ LG_Send \/ LG_Release \/ LG_Done \/ LG_Close \/ LG_Collect
    \/ LE_Spawn \/ LE_StartProducer \/ LE_StartCloser \/ LE_SendTask
    \/ LE_CloseTasks \/ LE_TakeTask \/ LE_GetElevationReturn
    \/ LE_SendResult \/ LE_WorkerExit \/ LE_Close \/ LE_Collect
    \/ LF_Spawn \/ LF_StartProducer \/ LF_StartCloser \/ LF_SendTask
    \/ LF_CloseTasks \/ LF_TakeTask \/ LF_Acquire \/ LF_FullLocationReturn
    \/ LF_SendResult \/ LF_WorkerExit \/ LF_Close
    \/ LF_Collect
    \/ LD_Spawn \/ LD_StartProducer \/ LD_StartCloser \/ LD_SendTask
    \/ LD_CloseTasks \/ LD_TakeTask \/ LD_DistanceReturn \/ LD_SendResult
    \/ LD_WorkerExit \/ LD_Close \/ LD_Collect

SpecLoad == InitLoad /\ [][NextLoad]_vars

-----------------------------------------------------------------------------
\* The work functions Geocode, ReverseGeocode and GetElevation, called by
\* several goroutines at once on one provider (one cache, one limiter).
\* W[w] is the call of goroutine w; items, now and ttl are the provider's cache.

\* the goroutines that call the work function
Workers == {1, 2}

\* calls each goroutine makes, one after the other
WorkCalls == 1

WorkFns == {"Geocode", "ReverseGeocode", "GetElevation"}

\* the work functions of a provider: Geocode and ReverseGeocode are methods of
\* one NominatimGeocoder and use its one cache and its one limiter
FnsOf(p) ==
    IF p = "NominatimGeocoder" THEN {"Geocode", "ReverseGeocode"}
    ELSE {"GetElevation"}

\* the cache keys a work function can use.  Geocode's key is the address
\* itself, any string; ReverseGeocode's is fmt.Sprintf("reverse_%f_%f", ...)
\* and GetElevation's fmt.Sprintf("elevation_%f_%f", ...).  "k2" stands for a
\* string of the form reverse_<lat>_<lon>, which is also a possible address.
CacheKeys(f) == IF f = "ReverseGeocode" THEN {"k2"} ELSE Keys

\* the dynamic type of the value a work function stores, and the type its
\* hit asserts: val.(Point), val.(Location), val.(int)
TypeOf(f) ==
    IF f = "Geocode" THEN "Point"
    ELSE IF f = "ReverseGeocode" THEN "Location" ELSE "int"

\* the ways the request to the provider can end, by work function
Outcomes(f) ==
    IF f = "Geocode"
      THEN {"ok", "transport", "HTTP error", "decode", "address not found",
            "parse"}
    ELSE IF f = "ReverseGeocode"
      THEN {"ok", "transport", "HTTP error", "decode"}
      ELSE {"ok", "transport", "decode", "elevation not found"}

\* what work function f makes of the provider's answer for cache key k
Answer(f, k) == [type |-> TypeOf(f), of |-> k]

\* the zero value a work function returns along with an error
ZeroValue == [type |-> "zero", of |-> "none"]

\* a goroutine that has not called yet
NoCall == [pc |-> "idle", f |-> "none", key |-> "none", n |-> 0,
           missed |-> FALSE, token |-> FALSE, called |-> FALSE,
           set |-> FALSE, overwrote |-> FALSE, val |-> ZeroValue,
           ret |-> [value |-> ZeroValue, err |-> "pending"]]

\* a provider fresh from NewNominatimGeocoder or NewOpenElevationProvider:
\* an empty cache, nobody calling
InitWork ==
    /\ fn \in {"NominatimGeocoder", "OpenElevationProvider"}
    /\ W = [w \in Workers |-> NoCall]
    /\ now = 0
    /\ ttl \in 1..MaxTTL
    /\ items = <<>>
    /\ lastGet = NoGet
    /\ lastSet = [k \in Keys |-> NoSet]
    /\ input = <<>> /\ env = <<>>
    /\ mainpc = "none" /\ mi = 0
    /\ tasks = <<>> /\ tasksClosed = FALSE
    /\ results = <<>> /\ resultsClosed = FALSE
    /\ wg = 0 /\ sem = 0 /\ idle = 0 /\ G = {}
    /\ prodpc = "none" /\ pk = 0 /\ closerpc = "none"
    /\ out = <<>> /\ ret = Pending /\ spawned = 0 /\ writes = <<>>
    /\ ooo = FALSE /\ handed = <<>> /\ calls = <<>>
    /\ L = <<>>

\* a goroutine has panicked: nothing recovers it and the program has exited
Crashed == \E w \in Workers : W[w].pc = "panic"

WorkTo(w, c) ==
    /\ ~Crashed
    /\ W' = [W EXCEPT ![w] = c]
    /\ UNCHANGED <<batchVars, now, ttl, lastGet, lastSet, L>>

\* goroutine w calls work function f with the argument whose cache key is k
W_Call(w, f, k) ==
    /\ W[w].pc \in {"idle", "done"}
    /\ W[w].n < WorkCalls
    /\ WorkTo(w, [NoCall EXCEPT !.pc = "get", !.f = f, !.key = k,
                                !.n = W[w].n + 1])
    /\ UNCHANGED items

\* what the lookup at the head of a work function returns on a hit:
\*   return val.(T), nil
\* The assertion panics when the stored value is not of the function's type.
HitReturn(c) ==
    IF items[c.key].value.type = TypeOf(c.f)
      THEN [c EXCEPT !.pc = "done",
                     !.ret = [value |-> items[c.key].value, err |-> "nil"]]
      ELSE [c EXCEPT !.pc = "panic",
                     !.ret = [value |-> ZeroValue, err |-> "panic"]]

\* a lookup that joins the call already in flight for its key
W_GetJoinsFlight(w) ==
    /\ W[w].pc = "get"
    /\ IF GetMisses(W[w].key)
         THEN IF \E v \in Workers \ {w} :
                    /\ W[v].key = W[w].key
                    /\ W[v].pc \in {"wait", "request", "set"}
                THEN WorkTo(w, [W[w] EXCEPT !.pc = "join", !.missed = TRUE])
                ELSE WorkTo(w, [W[w] EXCEPT !.pc = "wait", !.missed = TRUE])
         ELSE WorkTo(w, HitReturn(W[w]))
    /\ UNCHANGED items

\* if val, found := cache.Get(key); found { return val.(T), nil }
W_Get(w) ==
    /\ W[w].pc = "get"
    /\ IF GetMisses(W[w].key)
         THEN WorkTo(w, [W[w] EXCEPT !.pc = "wait", !.missed = TRUE])
         ELSE WorkTo(w, HitReturn(W[w]))
    /\ UNCHANGED items

\* if err := limiter.Wait(ctx); err != nil { return zero, err }
\* Wait returns nil once it has taken a token, or an error when the context's
\* deadline does not leave the time; which of the two is left open here
W_Wait(w) ==
    /\ W[w].pc = "wait"
    /\ \/ WorkTo(w, [W[w] EXCEPT !.pc = "request", !.token = TRUE])
       \/ WorkTo(w, [W[w] EXCEPT
                !.pc = "done",
                !.ret = [value |-> ZeroValue, err |-> "context deadline"]])
    /\ UNCHANGED items

\* the request to the provider and the decoding of its answer: every failure
\* returns the zero value and the error, success goes on to cache.Set
W_Request(w) ==
    /\ W[w].pc = "request"
    /\ \E o \in Outcomes(W[w].f) :
          IF o = "ok"
            THEN WorkTo(w, [W[w] EXCEPT !.pc = "set", !.called = TRUE,
                                        !.val = Answer(W[w].f, W[w].key)])
            ELSE WorkTo(w, [W[w] EXCEPT
                     !.pc = "done", !.called = TRUE,
                     !.ret = [value |-> ZeroValue, err |-> o]])
    /\ UNCHANGED items

\* cache.Set(key, value); return value, nil
W_Set(w) ==
    /\ W[w].pc = "set"
    /\ items' = (W[w].key :> [value |-> W[w].val,
                              expiry |-> Expiry(now, ttl)]) @@ items
    /\ WorkTo(w, [W[w] EXCEPT
             !.pc = "done", !.set = TRUE,
             !.overwrote = ~GetMisses(W[w].key),
             !.ret = [value |-> W[w].val, err |-> "nil"]])

NextWork ==
    \/ \E w \in Workers, f \in FnsOf(fn) :
          \E k \in CacheKeys(f) : W_Call(w, f, k)
    \/ \E w \in Workers : W_Get(w)
    \/ \E w \in Workers : W_Wait(w)
    \/ \E w \in Workers : W_Request(w)
    \/ \E w \in Workers : W_Set(w)
    \/ Cleanup
    \/ Tick

SpecWork == InitWork /\ [][NextWork]_vars

-----------------------------------------------------------------------------
\* Admission under contention: the workers of one batch call ReverseGeocode
\* (or Geocode, GetElevation) for different arguments on one provider whose
\* cache is empty, so every lookup misses and every worker goes to
\* limiter.Wait(ctx).  Time is counted in token intervals, 1/r seconds for a
\* limiter of r tokens per second; W.d is the admission deadline in intervals
\* (r * D), W.lim the limiter, W.c the workers, W.results the results channel
\* and W.ret what the batch returned.  Every provider call succeeds.

\* longest admission deadline, in token intervals
MaxDeadline == 1

\* rate.NewLimiter(rate.Limit(rps), 1): the burst
Burst == 1

\* the error limiter.Wait returns when the wait does not fit the deadline
WaitErr == "rate: Wait(n=1) would exceed context deadline"

\* Limiter.advance: the tokens in the bucket at time t
Tokens(lim, t) ==
    LET a == lim.tokens + (t - lim.last) IN IF a > Burst THEN Burst ELSE a

\* Limiter.reserveN(t, 1, waitLimit): the wait until the token taken at t is
\* there
Delay(lim, t) == IF Tokens(lim, t) < 1 THEN 1 - Tokens(lim, t) ELSE 0

\* a limiter that reserves whatever the deadline
ReserveAnyway(delay, waitLimit) == TRUE

\* Limiter.reserveN: ok := n <= lim.burst && waitDuration <= maxFutureReserve
ReserveOk(delay, waitLimit) == Burst >= 1 /\ delay <= waitLimit

\* waitLimit = deadline.Sub(now) in Limiter.Wait: the context was made a
\* moment before, so a wait of exactly d intervals may or may not fit
WaitLimits(d) == {d - 1, d}

InitAdmit ==
    /\ fn = "Admit"
    /\ \E d \in 1..MaxDeadline : \E p \in {1, d + 2} :
         W = [d |-> d, lim |-> [tokens |-> Burst, last |-> 0],
              c |-> [w \in 1..p |-> [pc |-> "wait", at |-> -1, wake |-> -1,
                                     err |-> "nil"]],
              results |-> <<>>, got |-> 0, ret |-> [done |-> FALSE]]
    /\ now = 0
    /\ ttl = MaxTTL
    /\ items = <<>>
    /\ lastGet = NoGet
    /\ lastSet = [k \in Keys |-> NoSet]
    /\ input = <<>> /\ env = <<>>
    /\ mainpc = "none" /\ mi = 0
    /\ tasks = <<>> /\ tasksClosed = FALSE
    /\ results = <<>> /\ resultsClosed = FALSE
    /\ wg = 0 /\ sem = 0 /\ idle = 0 /\ G = {}
    /\ prodpc = "none" /\ pk = 0 /\ closerpc = "none"
    /\ out = <<>> /\ ret = Pending /\ spawned = 0 /\ writes = <<>>
    /\ ooo = FALSE /\ handed = <<>> /\ calls = <<>>
    /\ L = <<>>

AdmitTo(x) == W' = x /\ UNCHANGED <<batchVars, cacheVars, L>>

\* if err := limiter.Wait(ctx); err != nil { return zero, err }: the
\* reservation.  A wait that fits is reserved and the goroutine sleeps until
\* its token is there; one that does not fit fails at once and the limiter is
\* left as it was.
A_Wait(w) ==
    /\ W.c[w].pc = "wait"
    /\ \E limit \in WaitLimits(W.d) :
         LET delay == Delay(W.lim, now) IN
         IF ReserveOk(delay, limit)
           THEN AdmitTo([W EXCEPT
                    !.lim = [tokens |-> Tokens(W.lim, now) - 1, last |-> now],
                    !.c[w] = [pc |-> IF delay = 0 THEN "request" ELSE "sleep",
                              at |-> now,
                              wake |-> IF delay = 0 THEN -1 ELSE now + delay,
                              err |-> "nil"]])
           ELSE AdmitTo([W EXCEPT
                    !.c[w] = [pc |-> "send", at |-> now, wake |-> -1,
                              err |-> WaitErr]])

\* the timer of Wait fires: the token is there
A_TimerFires(w) ==
    /\ W.c[w].pc = "sleep"
    /\ now >= W.c[w].wake
    /\ AdmitTo([W EXCEPT !.c[w].pc = "request", !.c[w].wake = -1])

\* the provider call, which succeeds; cache.Set; return value, nil
A_Request(w) ==
    /\ W.c[w].pc = "request"
    /\ AdmitTo([W EXCEPT !.c[w].pc = "send"])

\* results <- result{t.index, loc, err}; only err is kept here
A_Send(w) ==
    /\ W.c[w].pc = "send"
    /\ AdmitTo([W EXCEPT
           !.results = Append(@, [err |-> W.c[w].err]),
           !.c[w].pc = "done"])

\* the collector: for res := range results { if res.err != nil { return nil,
\* res.err }; ... }; return locations, nil.  results is closed once every
\* worker is done.
A_Collect ==
    /\ ~W.ret.done
    /\ \/ /\ W.results /= <<>>
          /\ IF Head(W.results).err /= "nil"
               THEN AdmitTo([W EXCEPT
                        !.results = Tail(@),
                        !.ret = [done |-> TRUE, out |-> "nil",
                                 err |-> Head(W.results).err]])
               ELSE AdmitTo([W EXCEPT !.results = Tail(@), !.got = @ + 1])
       \/ /\ W.results = <<>>
          /\ \A w \in DOMAIN W.c : W.c[w].pc = "done"
          /\ AdmitTo([W EXCEPT
                 !.ret = [done |-> TRUE, out |-> "locations", err |-> "nil"]])

NextAdmit ==
    \/ \E w \in DOMAIN W.c : A_Wait(w)
    \/ \E w \in DOMAIN W.c : A_TimerFires(w)
    \/ \E w \in DOMAIN W.c : A_Request(w)
    \/ \E w \in DOMAIN W.c : A_Send(w)
    \/ A_Collect
    \/ Tick

SpecAdmit == InitAdmit /\ [][NextAdmit]_vars

-----------------------------------------------------------------------------
Init ==
    \/ InitBatchGeocode
    \/ InitBatchGetElevation
    \/ InitBatchFullLocation
    \/ InitBatchDistanceConcurrent
    \/ InitFilterPointsInPolygonConcurrent

Next ==
    \/ BatchGeocode
    \/ BatchGetElevation
    \/ BatchFullLocation
    \/ BatchDistanceConcurrent
    \/ FilterPointsInPolygonConcurrent

Spec == Init /\ [][Next]_vars

\* The calls of BatchGeocode, BatchGetElevation and BatchFullLocation under
\* the Go scheduler: a goroutine that can run is run in the end, and every
\* invocation of a work function returns.  No step of a call can be undone, so
\* a behaviour that keeps taking steps ends where every goroutine has
\* terminated or is blocked for good.
InitLinear ==
    \/ InitBatchGeocode
    \/ InitBatchGetElevation
    \/ InitBatchFullLocation

NextLinear ==
    \/ BatchGeocode
    \/ BatchGetElevation
    \/ BatchFullLocation

SpecLinear == InitLinear /\ [][NextLinear]_vars

SpecFair == InitLinear /\ [][NextLinear]_vars /\ WF_vars(NextLinear)

\* one call of BatchDistanceConcurrent
SpecDistance ==
    InitBatchDistanceConcurrent /\ [][BatchDistanceConcurrent]_vars

\* one call of FilterPointsInPolygonConcurrent
SpecFilter ==
    InitFilterPointsInPolygonConcurrent
        /\ [][FilterPointsInPolygonConcurrent]_vars

-----------------------------------------------------------------------------
(* Properties of the linear batches *)

\* BatchGeocode, BatchGetElevation, BatchFullLocation
Linear == fn \in {"BatchGeocode", "BatchGetElevation", "BatchFullLocation"}

\* what the batch's work function returns for task i
Work(i) ==
    CASE fn = "BatchGeocode" -> Geocode(i, input[i])
      [] fn = "BatchGetElevation" -> GetElevation(i, input[i])
      [] fn = "BatchFullLocation" -> FullLocation(i, input[i])

\* the tasks whose work function fails
Failing == {i \in Idx : Work(i).err /= NilErr}

\* C1: order preservation.  When the work function succeeds on every element,
\* a linear batch returns a slice of length N whose i-th element is the work
\* function's result on input[i], whatever the order the results arrived in.
C1_OrderPreserved ==
    (Linear /\ ret.done /\ Failing = {}) =>
        /\ ret.err = NilErr
        /\ DOMAIN ret.out = Idx
        /\ \A i \in Idx : ret.out[i] = Work(i).value

\* a batch of MaxN tasks has returned its slice after the results arrived out
\* of input order
C1_Witness ==
    /\ Linear /\ ret.done /\ Failing = {} /\ N = MaxN /\ ooo
    /\ ret.err = NilErr
    /\ fn = "BatchFullLocation"

\* C2: fail-fast.  When exactly one task fails, a linear batch returns a
\* non-nil error and a nil slice.
C2_FailFast ==
    (Linear /\ ret.done /\ Cardinality(Failing) = 1) =>
        /\ ret.err /= NilErr
        /\ ret.out = NilSlice

\* the middle task of three failed, after the result of another task had been
\* stored
C2_Witness ==
    /\ Linear /\ ret.done /\ N = 3 /\ Failing = {1}
    /\ ret.err /= NilErr
    /\ \E i \in Idx : writes[i] > 0

\* C4: no partial result is returned as complete.  When a linear batch
\* returns a nil error, every slot was written exactly once, with the
\* successful output of its task, and the results channel is closed.
C4_NoPartialResult ==
    (Linear /\ ret.done /\ ret.err = NilErr) =>
        /\ \A i \in Idx : /\ writes[i] = 1
                          /\ Work(i).err = NilErr
                          /\ ret.out[i] = Work(i).value
        /\ resultsClosed
        /\ results = <<>>

\* a batch of MaxN tasks has returned a nil error
C4_Witness ==
    /\ Linear /\ ret.done /\ ret.err = NilErr /\ N = MaxN
    /\ fn = "BatchGeocode"

\* C5: zero input.  An entry point called with an empty input starts no
\* worker goroutine, and returns an empty output and no error.
C5_ZeroInputNoWorkers ==
    N = 0 =>
        /\ spawned = 0
        /\ ret.done => (ret.err = NilErr /\ ret.out = <<>>)

\* the error values the work function returns for the failing tasks
FailingErrs == {Work(i).err : i \in Failing}

\* C13: verbatim error propagation.  When at least one task fails, a linear
\* batch returns a nil slice and an error that is the very error value the
\* work function returned for one of the failing tasks; it never succeeds.
C13_VerbatimError ==
    (Linear /\ ret.done /\ Failing /= {}) =>
        /\ ret.out = NilSlice
        /\ ret.err /= NilErr
        /\ ret.err \in FailingErrs

\* two of three tasks failed, a result had been stored before, and the
\* error returned is the one FullLocation returned for task 2
C13_Witness ==
    /\ fn = "BatchFullLocation" /\ ret.done /\ N = 3 /\ Failing = {1, 2}
    /\ writes[0] = 1
    /\ ret.err = FullLocation(2, input[2]).err

\* the task index an error value names, -1 when it names none
ErrorIndex(e) == IF "index" \in DOMAIN e THEN e.index ELSE -1

\* C14: error context.  The error a linear batch returns is the failure
\* wrapped with the index of the failing task.
C14_ErrorNamesFailingTask ==
    (Linear /\ ret.done /\ ret.err /= NilErr) =>
        ErrorIndex(ret.err) \in Failing

\* the collector receives a failing result in this step
ReceivesFailure ==
    /\ Linear /\ mainpc = "collect"
    /\ results /= <<>> /\ results' = Tail(results)
    /\ Head(results).err /= NilErr

C18_ExactlyOnceDispatch ==
    Linear =>
        \A i \in Idx :
            /\ handed[i] <= 1
            /\ calls[i] <= handed[i]
            /\ Cardinality({g \in G : g.idx = i}) <= 1
            /\ (ret.done /\ ret.err = NilErr) => (handed[i] = 1 /\ calls[i] = 1)

\* BatchGetElevation on three points has succeeded, with the results
\* arriving out of input order, each task handed out and worked on once
C18_Witness ==
    /\ fn = "BatchGetElevation" /\ N = 3 /\ ret.done /\ ret.err = NilErr /\ ooo
    /\ \A i \in Idx : handed[i] = 1 /\ calls[i] = 1

\* C3: concurrency bound.  Whatever the size of the input, at most 10 Geocode
\* calls are active at once in BatchGeocode, at most min(8, N) GetElevation
\* calls in BatchGetElevation, at most 20 FullLocation calls in
\* BatchFullLocation and at most 8 distanceFunc calls in
\* BatchDistanceConcurrent.
C3_ConcurrencyBound ==
    fn = "Load" =>
        /\ L.fn = "BatchGeocode" => L.call <= 10
        /\ L.fn = "BatchGetElevation" => L.call <= (IF L.n < 8 THEN L.n ELSE 8)
        /\ L.fn = "BatchFullLocation" => L.call <= 20
        /\ L.fn = "BatchDistanceConcurrent" => L.call <= 8

\* BatchGeocode on 11 addresses: 10 Geocode calls are active and the 11th
\* goroutine waits for the semaphore
C3_Witness ==
    /\ fn = "Load" /\ L.fn = "BatchGeocode" /\ L.n = 11
    /\ L.call = 10 /\ L.acq = 1 /\ L.sem = 10

-----------------------------------------------------------------------------
(* Properties of BatchDistanceConcurrent *)

\* the distance functions of the model that are symmetric
Symmetric == {"abs", "offset"}

\* the tasks in the tasks channel or held by a worker
TasksInFlight == {tasks[k] : k \in DOMAIN tasks} \cup {[i |-> g.i, j |-> g.j] : g \in G}

C7_MatrixIsDistanceFunc ==
    (fn = "BatchDistanceConcurrent" /\ ret.done) =>
        \A i, j \in Idx : ret.out[i][j] = DistanceFunc(input[i], input[j])

-----------------------------------------------------------------------------
(* Properties of the Cache *)

\* C8: cache TTL.  After Set(key, v) at time t on a Cache with ttl T, and with
\* no later Set of that key, Get(key) returns (v, true) at every time
\* strictly before t + T and (nil, false) at every time strictly after
\* t + T, whether or not cleanup has run in between.
C8_CacheTTL ==
    (fn = "Cache" /\ lastGet.called /\ lastGet.set.called) =>
        /\ lastGet.at < lastGet.set.at + ttl =>
              (lastGet.found /\ lastGet.value = lastGet.set.value)
        /\ lastGet.at > lastGet.set.at + ttl =>
              (~lastGet.found /\ lastGet.value = NilValue)

\* a Get strictly after t + T misses although cleanup has not run since the
\* Set and the entry is still in the map
C8_Witness ==
    /\ fn = "Cache" /\ lastGet.called /\ lastGet.set.called
    /\ lastGet.at > lastGet.set.at + ttl
    /\ ~lastGet.set.swept /\ lastGet.present
    /\ ~lastGet.found /\ lastGet.value = NilValue

\* C9 as stated: Get reports found if and only if an entry for the key is
\* present and now < expiresAt; at now == expiresAt the read is a miss.
C9_FoundIffBeforeExpiry ==
    (fn = "Cache" /\ lastGet.called) =>
        (lastGet.found <=> (lastGet.present /\ lastGet.at < lastGet.expiry))

\* C9, amended: Get reports found if and only if an entry for the key is
\* present and now is not after expiresAt (now <= expiresAt); at
\* now == expiresAt an entry that is present is still read.
C9_FoundIffNotAfterExpiry ==
    (fn = "Cache" /\ lastGet.called) =>
        /\ lastGet.found <=> (lastGet.present /\ lastGet.at <= lastGet.expiry)
        /\ (lastGet.present /\ lastGet.at = lastGet.expiry) =>
              (lastGet.found /\ lastGet.value /= NilValue)

\* a Get at the instant of the entry's expiry has found it
C9_Witness ==
    /\ fn = "Cache" /\ lastGet.called /\ lastGet.present
    /\ lastGet.at = lastGet.expiry
    /\ lastGet.found

\* C16: Get has no effect on the cache.  A Get of any key at any time, also
\* of an expired or absent key, leaves the entry map as it was, and an entry
\* leaves the map only in a pass of cleanup.
C16_GetLeavesItems ==
    [][ /\ (\E k \in Keys : Get(k)) => items' = items
        /\ (\E k \in DOMAIN items : k \notin DOMAIN items') => Cleanup ]_vars

\* a Get has just missed on an expired key, and the entry is still in the map
C16_Witness ==
    /\ fn = "Cache" /\ lastGet.called /\ lastGet.at = now
    /\ lastGet.present /\ ~lastGet.found
    /\ lastGet.key \in DOMAIN items
    /\ items[lastGet.key].expiry = lastGet.expiry
    /\ After(now, items[lastGet.key].expiry)

\* Set(k, v) is done in this step
SetStep(k) ==
    /\ lastSet'[k].called /\ lastSet'[k].at = now /\ ~lastSet'[k].swept
    /\ \/ lastSet'[k] /= lastSet[k]
       \/ k \notin DOMAIN items

\* C17: Set inserts or overwrites.  After Set(key, value) the entry of key
\* holds value and expires at (time of the Set) + ttl, whether key was
\* absent, present or expired, and the entries of all other keys are as
\* before; an entry in the map is always that of the latest Set of its key.
C17_SetOverwrites ==
    /\ [][\A k \in Keys : SetStep(k) =>
            /\ k \in DOMAIN items'
            /\ items'[k] = [value |-> lastSet'[k].value, expiry |-> now + ttl]
            /\ \A j \in Keys \ {k} :
                  /\ (j \in DOMAIN items') <=> (j \in DOMAIN items)
                  /\ j \in DOMAIN items => items'[j] = items[j]]_vars
    /\ [](fn = "Cache" =>
            \A k \in DOMAIN items :
                /\ lastSet[k].called
                /\ items[k] = [value |-> lastSet[k].value,
                               expiry |-> lastSet[k].at + ttl])

\* a key whose entry a Get had found expired and still in the map was set
\* again later, and its entry now expires at the time of that Set + ttl
C17_Witness ==
    /\ fn = "Cache" /\ lastGet.called /\ lastGet.present /\ ~lastGet.found
    /\ lastSet[lastGet.key].at > lastGet.at
    /\ ~lastSet[lastGet.key].swept
    /\ lastGet.key \in DOMAIN items
    /\ items[lastGet.key].expiry = lastSet[lastGet.key].at + ttl
    /\ items[lastGet.key].expiry > lastGet.expiry

-----------------------------------------------------------------------------
(* Properties of FilterPointsInPolygonConcurrent *)

\* the points of points[k..] that are inside the polygon, in input order
RECURSIVE InsideInOrder(_)
InsideInOrder(k) ==
    IF k >= N THEN <<>>
    ELSE (IF IsPointInPolygon(input[k], env) THEN <<input[k]>> ELSE <<>>)
         \o InsideInOrder(k + 1)

\* C10: the points returned are the points inside the polygon in the order
\* of the input, for every input size.
C10_OutputInInputOrder ==
    (fn = "FilterPointsInPolygonConcurrent" /\ ret.done) =>
        ret.out = InsideInOrder(0)

\* the positions of the input whose point is inside the polygon
InsidePositions == {i \in Idx : IsPointInPolygon(input[i], env)}

\* C11: the points returned are exactly the input points inside the polygon.
\* Every position whose point is inside contributes exactly one element, no
\* other position contributes any, and a polygon of fewer than 3 vertices
\* gives an empty output.
C11_ExactlyInsidePoints ==
    (fn = "FilterPointsInPolygonConcurrent" /\ ret.done) =>
        /\ \A i \in Idx : writes[i] = (IF i \in InsidePositions THEN 1 ELSE 0)
        /\ Len(ret.out) = Cardinality(InsidePositions)
        /\ \A p \in PolyPoints :
              Cardinality({k \in DOMAIN ret.out : ret.out[k] = p})
                = Cardinality({i \in InsidePositions : input[i] = p})
        /\ Cardinality(DOMAIN env) < 3 => ret.out = <<>>

\* three points, some inside and some outside a polygon of at least 3
\* vertices, were filtered by two goroutines whose results arrived out of
\* input order
C11_Witness ==
    /\ fn = "FilterPointsInPolygonConcurrent" /\ ret.done /\ N = 3 /\ ooo
    /\ Cardinality(DOMAIN env) >= 3
    /\ InsidePositions /= {} /\ InsidePositions /= Idx
    /\ Len(ret.out) = Cardinality(InsidePositions)

-----------------------------------------------------------------------------
(* Properties of the channels *)

\* C12: non-blocking queues.  In the four batches with queues no send on
\* tasks and no send on results ever blocks, also after the collector has
\* returned on a failure: the items ever sent on each channel never exceed
\* its capacity, and whenever the producer or a worker is at a send the
\* channel has a free slot.
C12_SendsNeverBlock ==
    fn = "Load" =>
        /\ L.pk <= L.tcap
        /\ L.got + L.r <= L.rcap
        /\ (L.prod = "run" /\ L.pk < L.total) => L.q < L.tcap
        /\ L.send > 0 => L.r < L.rcap

\* BatchGetElevation on 9 points: the collector returned on the first result
\* it received, 7 results lie in the channel nobody reads any more, and a
\* worker is about to send the last one
C12_Witness ==
    /\ fn = "Load" /\ L.fn = "BatchGetElevation" /\ L.n = 9
    /\ L.failed /\ L.mainpc = "returned" /\ L.got = 1
    /\ L.r = 7 /\ L.send = 1

\* C20: no single-flight. Geocode, ReverseGeocode and GetElevation do nothing
\* to join calls for the same key: a lookup that misses always goes on to its
\* own limiter wait, whatever other calls are in flight, it is never held up
\* by them, and every call that stored a value had missed, taken its own token
\* and made its own provider call. So two goroutines calling with the same key
\* can both miss, both call the provider and both execute Cache.Set.
C20_NoSingleFlight ==
    /\ [][\A w \in Workers :
            (W[w].pc = "get" /\ W'[w] # W[w] /\ GetMisses(W[w].key))
                => (W'[w].pc = "wait" /\ W'[w].missed)]_vars
    /\ [](\A w \in Workers :
            /\ (W[w].pc = "get" /\ ~Crashed) => ENABLED W_Get(w)
            /\ (W[w].pc = "set" \/ W[w].set)
                  => (W[w].missed /\ W[w].token /\ W[w].called))

\* C20: both goroutines made their first call with the same key, both missed,
\* both called the provider and both executed Set, the second Set replacing the
\* live entry the first had just stored
C20_Witness ==
    /\ \E w1, w2 \in Workers :
          /\ w1 # w2
          /\ W[w1].f = W[w2].f /\ W[w1].f \in WorkFns
          /\ W[w1].key = W[w2].key
          /\ \A w \in {w1, w2} :
                /\ W[w].pc = "done" /\ W[w].n = 1
                /\ W[w].missed /\ W[w].called /\ W[w].set
                /\ W[w].ret.err = "nil"
          /\ W[w2].overwrote

\* the worker goroutines, the task producer and the goroutine that closes
\* results have all terminated
AllTerminated ==
    /\ G = {} /\ idle = 0 /\ wg = 0
    /\ prodpc \in {"none", "done"}
    /\ closerpc = "done" /\ resultsClosed

\* C21: no leaked goroutines after fail-fast.  Once a linear batch has
\* returned an error, every worker goroutine, the task producer and the
\* goroutine that waits on the WaitGroup and closes results terminate in the
\* end, although nothing receives from results any more.
C21_NoLeakAfterFailFast ==
    (Linear /\ ret.done /\ ret.err /= NilErr) ~> AllTerminated

\* the batch returned on the first result it received and every goroutine has
\* terminated, the two other results left in the channel
C21_Witness ==
    /\ Linear /\ ret.done /\ ret.err /= NilErr
    /\ AllTerminated
    /\ N = 3 /\ Len(results) = 2
    /\ \A i \in Idx : writes[i] = 0
    /\ fn = "BatchGetElevation"

\* the step in which the call of goroutine w returns
Returns(w) == W[w].pc /= "done" /\ W'[w].pc = "done"

\* C22: step order of Geocode, ReverseGeocode and GetElevation.  A lookup
\* that hits returns the cached value with a nil error, having consumed no
\* limiter token and made no provider call; a provider call is made only with
\* a token, so none after a failed admission; Cache.Set is executed only after
\* a successful provider call, and a call that returns an error leaves the
\* cache as it was.
C22_StepOrder ==
    /\ [][\A w \in Workers :
            /\ (W[w].pc = "get" /\ W'[w] # W[w] /\ ~GetMisses(W[w].key)) =>
                  /\ W'[w].pc = "done"
                  /\ W'[w].ret = [value |-> items[W[w].key].value,
                                  err |-> "nil"]
                  /\ ~W'[w].token /\ ~W'[w].called /\ ~W'[w].set
                  /\ items' = items
            /\ (Returns(w) /\ W'[w].ret.err /= "nil") => items' = items
            /\ (W'[w].set /\ ~W[w].set) =>
                  /\ W[w].pc = "set" /\ W[w].called
                  /\ W[w].val = Answer(W[w].f, W[w].key)]_vars
    /\ [](\A w \in Workers :
            /\ W[w].called => W[w].token
            /\ W[w].token => W[w].missed
            /\ W[w].ret.err = "context deadline" => ~W[w].called
            /\ W[w].set => W[w].ret.err = "nil")

\* C23: bounded pool.  Whatever the size of the input, the worker goroutines of
\* a batch alive at one time number at most 10 in BatchGeocode, 8 in
\* BatchGetElevation, 20 in BatchFullLocation and 8 in
\* BatchDistanceConcurrent.
C23_BoundedPool ==
    fn = "Load" =>
        /\ L.fn = "BatchGeocode" => L.live <= 10
        /\ L.fn = "BatchGetElevation" => L.live <= 8
        /\ L.fn = "BatchFullLocation" => L.live <= 20
        /\ L.fn = "BatchDistanceConcurrent" => L.live <= 8

\* the pairs (i, j) with 0 <= i < j < N
UpperPairs == {c \in Idx \X Idx : c[1] < c[2]}

\* the pairs of the tasks the producer has sent so far
Enqueued == {<<Pairs(N)[k].i, Pairs(N)[k].j>> : k \in 1..pk}

\* C24: pairwise enumeration.  For N points BatchDistanceConcurrent enqueues
\* N(N-1)/2 tasks, one for each pair (i, j) with 0 <= i < j < N and none twice;
\* tasks and results have capacity N(N-1)/2, which is 0 for N = 0 and N = 1;
\* and the distance function is invoked once for each enqueued pair: never
\* twice, never for a pair not enqueued, and for every pair by the time the
\* call returns.
C24_PairwiseEnumeration ==
    fn = "BatchDistanceConcurrent" =>
        /\ Len(Pairs(N)) * 2 = N * (N - 1)
        /\ {<<Pairs(N)[k].i, Pairs(N)[k].j>> : k \in 1..Len(Pairs(N))} = UpperPairs
        /\ Cardinality(UpperPairs) = Len(Pairs(N))
        /\ pk <= Len(Pairs(N)) /\ Cardinality(Enqueued) = pk
        /\ PairCap(N) * 2 = N * (N - 1)
        /\ (N <= 1 => PairCap(N) = 0)
        /\ Len(tasks) <= PairCap(N) /\ Len(results) <= PairCap(N)
        /\ \A c \in DOMAIN calls :
              /\ calls[c] <= 1
              /\ calls[c] = 1 => c \in Enqueued
        /\ ret.done => (pk = Len(Pairs(N)) /\ \A c \in UpperPairs : calls[c] = 1)

\* the call on three points has returned: three tasks were enqueued and the
\* distance function was invoked once for each of (0,1), (0,2) and (1,2)
C24_Witness ==
    /\ fn = "BatchDistanceConcurrent" /\ N = 3 /\ ret.done
    /\ pk = 3 /\ PairCap(N) = 3
    /\ \A c \in UpperPairs : calls[c] = 1

\* C25: no send on a closed channel.  In every entry point results is closed
\* only when the WaitGroup counter is zero and every worker goroutine has
\* finished, and tasks only after the producer has sent its last task; no
\* goroutine sends on a closed channel and no channel is closed twice, also
\* after the call has returned on a failure.
C25_NoSendOnClosed ==
    /\ [][ /\ (resultsClosed' /\ ~resultsClosed) =>
                 (wg = 0 /\ G = {} /\ idle = 0 /\ closerpc = "wait")
           /\ (tasksClosed' /\ ~tasksClosed) =>
                 (prodpc = "run" /\ pk = IF fn = "BatchDistanceConcurrent"
                                            THEN Len(Pairs(N)) ELSE N)
           /\ (Len(results') > Len(results)) => ~resultsClosed
           /\ (Len(tasks') > Len(tasks)) => ~tasksClosed ]_vars
    /\ []( /\ resultsClosed =>
                 (closerpc = "done" /\ wg = 0 /\ G = {} /\ idle = 0)
           /\ (closerpc = "wait") => ~resultsClosed
           /\ tasksClosed => (prodpc = "done")
           /\ (prodpc = "run") => ~tasksClosed )

\* BatchFullLocation returned on a failure; the workers went on, sent their
\* results with nothing receiving them, and both channels were closed after
\* the last send
C25_Witness ==
    /\ fn = "BatchFullLocation" /\ N = 3
    /\ ret.done /\ ret.err /= NilErr
    /\ resultsClosed /\ tasksClosed
    /\ Len(results) = 2 /\ pk = 3

\* C26: no cancellation of queued work.  Once a linear batch has returned on
\* the first failure, the work function is still invoked, in the end, for
\* every one of the N tasks, those not yet started at that moment included.
C26_QueuedWorkStillRuns ==
    (Linear /\ ret.done /\ ret.err /= NilErr) ~> (\A i \in Idx : calls[i] = 1)

\* BatchFullLocation returned the error of its first task before any other
\* result was stored, and FullLocation has been invoked for all three tasks
C26_Witness ==
    /\ fn = "BatchFullLocation" /\ N = 3
    /\ ret.done /\ ret.err = Work(0).err /\ ret.err /= NilErr
    /\ \A i \in Idx : writes[i] = 0 /\ handed[i] = 1 /\ calls[i] = 1

\* what Get(k) would return now
GetResult(k) ==
    IF GetMisses(k) THEN [value |-> NilValue, found |-> FALSE]
    ELSE [value |-> items[k].value, found |-> TRUE]

\* what Get(k) would return now had the sweep never fired: the entry of the
\* last Set of k is then still in the map
GetResultUnswept(k) ==
    IF lastSet[k].called /\ ~After(now, Expiry(lastSet[k].at, ttl))
      THEN [value |-> lastSet[k].value, found |-> TRUE]
      ELSE [value |-> NilValue, found |-> FALSE]

\* C27: the background sweep is invisible to readers.  A pass of cleanup
\* removes only entries on which Get already misses at that time and changes
\* the result of Get for no key; and at every time, for every key, Get returns
\* what it would return in the run with the same Sets where the sweep never
\* fires.
C27_SweepInvisible ==
    /\ [][Cleanup =>
            /\ \A k \in DOMAIN items \ DOMAIN items' : GetMisses(k)
            /\ \A k \in Keys : GetResult(k)' = GetResult(k)]_vars
    /\ [](fn = "Cache" => \A k \in Keys : GetResult(k) = GetResultUnswept(k))

\* a sweep removed the expired entry of a key, and a Get of that key after it
\* missed, as it would have with the entry still in the map
C27_Witness ==
    /\ fn = "Cache" /\ lastGet.called /\ ~lastGet.found /\ ~lastGet.present
    /\ lastGet.set.called /\ lastGet.set.swept
    /\ lastGet.set.sweptAt <= lastGet.at
    /\ After(lastGet.set.sweptAt, Expiry(lastGet.set.at, ttl))
    /\ GetResultUnswept(lastGet.key) = [value |-> NilValue, found |-> FALSE]

\* the workers that called limiter.Wait at time t, and those of them that
\* were refused
WaitedAt(t) == {w \in DOMAIN W.c : W.c[w].at = t}
Refused == {w \in DOMAIN W.c : W.c[w].err = WaitErr}

\* C28: admission timeout caused by local contention alone.  With burst 1 and
\* a deadline of d token intervals (r * D), of the workers that call
\* limiter.Wait at the same time at most d + 1 are admitted: when more than
\* d + 1 do, at least one is refused.  Then the batch, once it has returned,
\* has returned nil and that admission error, although every provider call
\* succeeded.
C28_AdmissionTimeout ==
    fn = "Admit" =>
        /\ \A t \in 0..now :
              /\ Cardinality(WaitedAt(t) \ Refused) <= W.d + 1
              /\ Cardinality(WaitedAt(t)) > W.d + 1 => WaitedAt(t) \cap Refused /= {}
        /\ (W.ret.done /\ Refused /= {})
              => (W.ret.err = WaitErr /\ W.ret.out = "nil")
        /\ (W.ret.done /\ W.ret.err /= "nil") => W.ret.err = WaitErr

\* d + 2 workers called limiter.Wait at time 0 with the longest deadline: one
\* was refused, and the batch returned its admission error
C28_Witness ==
    /\ fn = "Admit" /\ W.d = MaxDeadline
    /\ Cardinality(WaitedAt(0)) = W.d + 2
    /\ Cardinality(Refused) = 1
    /\ W.ret.done /\ W.ret.err = WaitErr /\ W.ret.out = "nil"

=============================================================================
